---- MODULE Spec2Model ----
(***************************************************************************)
(* A model of the Fluent message contexts of fluent/context.py and of the  *)
(* tree-walking resolver of fluent/resolver.py.                            *)
(*                                                                         *)
(* Conventions.                                                            *)
(*  - A Python string is a sequence of symbols.  A message id is a string: *)
(*    "-term-html" is <<"-", "term", "-html">>, so that startswith("-")    *)
(*    and endswith("-html") are computed on the id itself.                 *)
(*  - A Python object is a record with a "type" field (its class).         *)
(*  - A resolver function returns [val, env, exc]: the value returned, the *)
(*    environment it leaves behind, and the class of the exception it      *)
(*    raised ("" when it returned normally).                               *)
(*  - An OrderedDict is a sequence of [key, node] entries, keys distinct.  *)
(*  - The AST nodes are immutable objects; a store holds references to     *)
(*    them.  A reference names the add_messages call that parsed the node, *)
(*    the resource, the entry and the attribute (0 for the entry itself).  *)
(*  - Both context classes share MessageContextBase; the model keeps one   *)
(*    store, fed by add_messages, and gives it both format methods.        *)
(*  - Where a function uses the result of a nested resolution more than   *)
(*    once, the rest of the function is an operator of its own that takes  *)
(*    the result as a parameter (fully_resolved, join_parts, handle_under).*)
(***************************************************************************)
EXTENDS Integers, Sequences, FiniteSets, TLC

VARIABLES
    _escapers,            \* MessageContextBase._escapers
    _use_isolating,       \* MessageContextBase._use_isolating
    _messages,            \* MessageContextBase._messages
    _terms,               \* MessageContextBase._terms
    _parsing_issues,      \* MessageContextBase._parsing_issues
    _is_dirty,            \* CompilingMessageContext._is_dirty
    _compilation_errors,  \* CompilingMessageContext._compilation_errors
    _compiled_messages,   \* CompilingMessageContext._compiled_messages
    n_loads,              \* number of add_messages calls made so far
    call                  \* the last public call and what it gave its caller

vars == <<_escapers, _use_isolating, _messages, _terms, _parsing_issues,
          _is_dirty, _compilation_errors, _compiled_messages, n_loads, call>>

\* Bound of the model: the number of add_messages calls on one context.
MaxLoads == 2

\* resolver.py:29 and resolver.py:32.
MAX_PART_LENGTH == 2500
MAX_PARTS == 1000

\* resolver.py:36-37: the bidi isolation characters, one symbol each.
FSI == "FSI"
PDI == "PDI"

-----------------------------------------------------------------------------
(* Python values *)

Text(s) == [type |-> "text", s |-> s]
Markup(s) == [type |-> "Markup", s |-> s]
Markdown(s) == [type |-> "Markdown", s |-> s]
PyInt(n) == [type |-> "int", n |-> n]
Object == [type |-> "object"]
PyNone == [type |-> "NoneType"]
\* FluentNone(name); FluentNone() carries the empty name.
FluentNone(name) == [type |-> "FluentNone", name |-> name]

\* isinstance(v, cls): markupsafe.Markup is a subclass of the text type.
IsInstance(v, cls) ==
    \/ v.type = cls
    \/ cls = "text" /\ v.type = "Markup"

\* FluentNone.format(locale): the carried name, "???" when there is none.
FluentNoneFormat(none) == IF none.name = <<>> THEN <<"???">> ELSE none.name

\* fluent_number(n).format(locale): the digits of a small integer.
FluentNumberFormat(n) == <<ToString(n)>>

\* The concatenation of a sequence of strings (by halves, to keep the
\* evaluation shallow on long sequences).
RECURSIVE Flatten(_)
Flatten(ss) ==
    IF Len(ss) = 0 THEN <<>>
    ELSE IF Len(ss) = 1 THEN ss[1]
    ELSE LET h == Len(ss) \div 2
         IN Flatten(SubSeq(ss, 1, h)) \o Flatten(SubSeq(ss, h + 1, Len(ss)))

Last(s) == s[Len(s)]

-----------------------------------------------------------------------------
(* Escapers.  An escaper is a record of the attributes the object has; an   *)
(* attribute the object lacks is absent from the record's domain.          *)

HasAttr(obj, name) == name \in DOMAIN obj

\* escapers.py:19-28.  The class defines select, escape, mark_escaped and
\* string_join, and nothing else.
null_escaper ==
    [name |-> "null_escaper",
     select |-> "always",
     escape |-> "identity",
     mark_escaped |-> "identity",
     string_join |-> "str.join"]

\* tests/format/test_escapers.py:18-39, with the isolation policy as a
\* parameter ("True", "False" or "None") and the join method under the name
\* the resolver calls, string_join.
HtmlEscaper(iso) ==
    [name |-> "HtmlEscaper",
     output_type |-> "Markup",
     use_isolating |-> iso,
     select |-> "-html",
     escape |-> "markupsafe.escape",
     mark_escaped |-> "Markup",
     string_join |-> "Markup.join"]

\* tests/format/test_escapers.py:70-94.
MarkdownEscaper ==
    [name |-> "MarkdownEscaper",
     output_type |-> "Markdown",
     use_isolating |-> "True",
     select |-> "-md",
     escape |-> "strip_markdown",
     mark_escaped |-> "Markdown",
     string_join |-> "Markdown.add"]

\* escaper.select(message_id=message_id)
select(escaper, message_id) ==
    IF escaper.select = "always" THEN TRUE
    ELSE message_id # <<>> /\ Last(message_id) = escaper.select

\* markupsafe.escape on the characters of a plain string.
HtmlEscapeChar(c) ==
    CASE c = "&" -> <<"&", "a", "m", "p", ";">>
      [] c = "<" -> <<"&", "l", "t", ";">>
      [] c = ">" -> <<"&", "g", "t", ";">>
      [] OTHER -> <<c>>

HtmlEscapeStr(s) == Flatten([i \in 1..Len(s) |-> HtmlEscapeChar(s[i])])

\* strip_markdown: the emphasis marks are dropped.
StripMarkdown(s) == SelectSeq(s, LAMBDA c : c \notin {"*", "_"})

\* escaper.escape(unescaped)
escape(escaper, v) ==
    CASE escaper.escape = "identity" -> v
      [] escaper.escape = "markupsafe.escape" ->
            IF v.type = "Markup" THEN v ELSE Markup(HtmlEscapeStr(v.s))
      [] escaper.escape = "strip_markdown" ->
            IF v.type = "Markdown" THEN v ELSE Markdown(StripMarkdown(v.s))

\* A mark_escaped that gives the plain text back.
mark_escaped_plain(escaper, s) == Text(s)

\* escaper.mark_escaped(escaped)
mark_escaped(escaper, s) ==
    CASE escaper.mark_escaped = "identity" -> Text(s)
      [] escaper.mark_escaped = "Markup" -> Markup(s)
      [] escaper.mark_escaped = "Markdown" -> Markdown(s)

\* escaper.string_join(parts): [val, exc].  ''.join wants strings,
\* Markup('').join escapes what is not Markup, Markdown.__add__ asserts.
string_join(escaper, parts) ==
    CASE escaper.string_join = "str.join" ->
            IF \A i \in 1..Len(parts) : IsInstance(parts[i], "text")
            THEN [val |-> Text(Flatten([i \in 1..Len(parts) |-> parts[i].s])), exc |-> ""]
            ELSE [val |-> PyNone, exc |-> "TypeError"]
      [] escaper.string_join = "Markup.join" ->
            IF \A i \in 1..Len(parts) : IsInstance(parts[i], "text")
            THEN [val |-> Markup(Flatten([i \in 1..Len(parts) |->
                            escape(escaper, parts[i]).s])), exc |-> ""]
            ELSE [val |-> PyNone, exc |-> "TypeError"]
      [] escaper.string_join = "Markdown.add" ->
            IF \A i \in 1..Len(parts) : parts[i].type = "Markdown"
            THEN [val |-> Markdown(Flatten([i \in 1..Len(parts) |-> parts[i].s])), exc |-> ""]
            ELSE [val |-> PyNone, exc |-> "AssertionError"]

\* escapers.py:31-40
escapers_compatible(outer_escaper, inner_escaper) ==
    IF inner_escaper = null_escaper THEN TRUE
    ELSE outer_escaper = inner_escaper

\* escapers.py:43-49
escaper_for_message(escapers, message_id) ==
    IF \E i \in 1..Len(escapers) : select(escapers[i], message_id)
    THEN escapers[CHOOSE i \in 1..Len(escapers) :
                    /\ select(escapers[i], message_id)
                    /\ \A j \in 1..(i - 1) : ~select(escapers[j], message_id)]
    ELSE null_escaper

-----------------------------------------------------------------------------
(* The store *)

Keys(store) == [i \in 1..Len(store) |-> store[i].key]
Has(store, key) == \E i \in 1..Len(store) : store[i].key = key
Get(store, key) == store[CHOOSE i \in 1..Len(store) : store[i].key = key].node

\* store[name] = item on an OrderedDict: an existing key keeps its place.
Put(store, key, node) ==
    IF Has(store, key)
    THEN [i \in 1..Len(store) |->
            IF store[i].key = key THEN [key |-> key, node |-> node] ELSE store[i]]
    ELSE Append(store, [key |-> key, node |-> node])

\* utils.py:163-164
message_id_for_attr(parent_msg_id, attr_name) == parent_msg_id \o <<".">> \o attr_name

-----------------------------------------------------------------------------
(* The AST (fluent.syntax.ast), as the parser hands it over.  A Pattern     *)
(* carries pid, its identity as an object: env.dirty is a set of objects.  *)

TextElement(value) == [type |-> "TextElement", value |-> value]
Placeable(expression) == [type |-> "Placeable", expression |-> expression]
Pattern(pid, elements) == [type |-> "Pattern", pid |-> pid, elements |-> elements]
StringLiteral(value) == [type |-> "StringLiteral", value |-> value]
NumberLiteral(value) == [type |-> "NumberLiteral", value |-> value]
MessageReference(id) == [type |-> "MessageReference", id |-> id]
TermReference(id) == [type |-> "TermReference", id |-> id]
VariableReference(id) == [type |-> "VariableReference", id |-> id]
AttributeExpression(ref, name) == [type |-> "AttributeExpression", ref |-> ref, name |-> name]
VariantExpression(ref, key) == [type |-> "VariantExpression", ref |-> ref, key |-> key]
VariantName(name) == [type |-> "VariantName", name |-> name]
Variant(key, value, default) == [key |-> key, value |-> value, default |-> default]
VariantList(variants) == [type |-> "VariantList", variants |-> variants]
SelectExpression(selector, variants) ==
    [type |-> "SelectExpression", selector |-> selector, variants |-> variants]
CallExpression(callee, positional, named) ==
    [type |-> "CallExpression", callee |-> callee, positional |-> positional, named |-> named]
NamedArgument(name, value) == [name |-> name, value |-> value]
Attribute(id, value) == [type |-> "Attribute", id |-> id, value |-> value]
Message(id, value, attributes) ==
    [type |-> "Message", id |-> id, value |-> value, attributes |-> attributes]
Term(id, value, attributes) ==
    [type |-> "Term", id |-> id, value |-> value, attributes |-> attributes]
Junk == [type |-> "Junk"]

-----------------------------------------------------------------------------
(* The resources handed to add_messages, as FluentParser.parse gives them.  *)
(* The messages are those of tests/format/test_escapers.py:113-163, cut to  *)
(* a few symbols each, and the scenarios of the specification.             *)

Ref(id) == Placeable(IF Head(id) = "-" THEN TermReference(id) ELSE MessageReference(id))
Arg == Placeable(VariableReference(<<"arg">>))
Txt(s) == TextElement(s)

\* not-html-message, simple-html, argument-html, -term-plain,
\* term-plain-ref-html, function-html, parent-plain with its attributes,
\* references-html-message-plain, references-plain-attr-html, and
\* bar = X { foo } with foo = Foo.
SrcEscaping ==
    <<Message(<<"foo">>, Pattern("foo", <<Txt(<<"F", "o", "o">>)>>), <<>>),
      Message(<<"bar">>, Pattern("bar", <<Txt(<<"X", " ">>), Ref(<<"foo">>)>>), <<>>),
      Message(<<"simple", "-html">>, Pattern("simple-html", <<Txt(<<"<", "b", ">">>)>>), <<>>),
      Message(<<"argument", "-html">>,
              Pattern("argument-html", <<Txt(<<"<", "i", ">">>), Arg, Txt(<<".">>)>>), <<>>),
      Term(<<"-", "term", "-plain">>, Pattern("-term-plain", <<Txt(<<"J", "&", "J">>)>>), <<>>),
      Message(<<"term-plain-ref", "-html">>,
              Pattern("term-plain-ref-html", <<Ref(<<"-", "term", "-plain">>), Txt(<<"!">>)>>), <<>>),
      Message(<<"function", "-html">>,
              Pattern("function-html",
                      <<Txt(<<":">>),
                        Placeable(CallExpression(<<"QUOTE">>, <<VariableReference(<<"arg">>)>>, <<>>))>>),
              <<>>),
      Message(<<"parent", "-plain">>, Pattern("parent-plain", <<Txt(<<"S">>)>>),
              <<Attribute(<<"attr", "-html">>, Pattern("parent-plain.attr-html", <<Txt(<<"<", "b", ">">>)>>)),
                Attribute(<<"attr", "-plain">>, Pattern("parent-plain.attr-plain", <<Txt(<<"T", "&", "T">>)>>))>>),
      Message(<<"references-html-message", "-plain">>,
              Pattern("references-html-message-plain", <<Txt(<<"P">>), Ref(<<"simple", "-html">>)>>), <<>>),
      Message(<<"references-plain-attr", "-html">>,
              Pattern("references-plain-attr-html",
                      <<Txt(<<"H">>),
                        Placeable(AttributeExpression(<<"parent", "-plain">>, <<"attr", "-plain">>))>>),
              <<>>)>>

\* argument-md and simple-md, and an HTML message that refers to a
\* Markdown message.
SrcMarkdown ==
    <<Message(<<"simple", "-md">>, Pattern("simple-md", <<Txt(<<"*", "g", "*">>)>>), <<>>),
      Message(<<"argument", "-md">>, Pattern("argument-md", <<Txt(<<"T">>), Arg>>), <<>>),
      Message(<<"literal", "-html">>,
              Pattern("literal-html", <<Txt(<<"L">>), Placeable(StringLiteral(<<"a", "&", "b">>))>>), <<>>),
      Message(<<"references-md-message", "-html">>,
              Pattern("references-md-message-html", <<Ref(<<"simple", "-md">>), Txt(<<"!">>)>>), <<>>)>>

\* Cycles, references to what is absent, a message without a value, a
\* variant expression on a term that is no variant list, a select, a
\* select with two keys that match 1 and with variants that refer to what
\* is absent, and a message that refers to one message from a placeable
\* and from each of its variants.
SrcCycles ==
    <<Message(<<"a">>, Pattern("a", <<Ref(<<"b">>)>>), <<>>),
      Message(<<"b">>, Pattern("b", <<Ref(<<"a">>)>>), <<>>),
      Message(<<"a", "-html">>, Pattern("a-html", <<Ref(<<"b", "-html">>)>>), <<>>),
      Message(<<"b", "-html">>, Pattern("b-html", <<Ref(<<"a", "-html">>)>>), <<>>),
      Message(<<"twice", "-html">>,
              Pattern("twice-html", <<Ref(<<"leaf", "-html">>), Ref(<<"leaf", "-html">>)>>), <<>>),
      Message(<<"leaf", "-html">>, Pattern("leaf-html", <<Txt(<<"x">>)>>), <<>>),
      Message(<<"missing", "-html">>, Pattern("missing-html", <<Ref(<<"nope", "-html">>)>>), <<>>),
      Message(<<"novalue", "-html">>, PyNone,
              <<Attribute(<<"title">>, Pattern("novalue-html.title", <<Txt(<<"t">>)>>))>>),
      Message(<<"ref-novalue", "-html">>, Pattern("ref-novalue-html", <<Ref(<<"novalue", "-html">>)>>), <<>>),
      Term(<<"-", "brand", "-html">>,
           VariantList(<<Variant(VariantName(<<"short">>), Pattern("-brand-html[short]", <<Txt(<<"B">>)>>), FALSE),
                         Variant(VariantName(<<"long">>), Pattern("-brand-html[long]", <<Txt(<<"B", "r">>)>>), TRUE)>>),
           <<>>),
      Term(<<"-", "flat", "-html">>, Pattern("-flat-html", <<Txt(<<"f">>)>>), <<>>),
      Message(<<"variant", "-html">>,
              Pattern("variant-html",
                      <<Placeable(VariantExpression(<<"-", "brand", "-html">>, <<"short">>))>>), <<>>),
      Message(<<"bad-variant", "-html">>,
              Pattern("bad-variant-html",
                      <<Placeable(VariantExpression(<<"-", "flat", "-html">>, <<"short">>))>>), <<>>),
      Message(<<"count", "-html">>,
              Pattern("count-html",
                      <<Placeable(SelectExpression(VariableReference(<<"arg">>),
                          <<Variant(VariantName(<<"one">>), Pattern("count-html[one]", <<Txt(<<"1">>)>>), FALSE),
                            Variant(VariantName(<<"other">>),
                                    Pattern("count-html[other]", <<Arg, Ref(<<"count", "-html">>)>>), TRUE)>>))>>),
              <<>>),
      Message(<<"pick", "-html">>,
              Pattern("pick-html",
                      <<Placeable(SelectExpression(VariableReference(<<"arg">>),
                          <<Variant(NumberLiteral(0),
                                    Pattern("pick-html[0]", <<Ref(<<"nope", "-html">>)>>), FALSE),
                            Variant(NumberLiteral(1), Pattern("pick-html[1]", <<Txt(<<"A">>)>>), FALSE),
                            Variant(VariantName(<<"one">>),
                                    Pattern("pick-html[one]", <<Txt(<<"B">>), Ref(<<"nope", "-html">>)>>), FALSE),
                            Variant(VariantName(<<"other">>),
                                    Pattern("pick-html[other]", <<Txt(<<"O">>)>>), TRUE)>>))>>),
              <<>>),
      Message(<<"several", "-html">>,
              Pattern("several-html",
                      <<Ref(<<"leaf", "-html">>),
                        Placeable(SelectExpression(VariableReference(<<"arg">>),
                          <<Variant(VariantName(<<"one">>),
                                    Pattern("several-html[one]", <<Ref(<<"leaf", "-html">>)>>), FALSE),
                            Variant(VariantName(<<"other">>),
                                    Pattern("several-html[other]",
                                            <<Ref(<<"leaf", "-html">>), Ref(<<"leaf", "-html">>)>>),
                                    TRUE)>>))>>),
              <<>>)>>

\* Second definitions of ids of SrcEscaping, with other values and fewer
\* attributes, a junk entry, and an id that the resource itself defines
\* twice.
SrcRedefine ==
    <<Message(<<"simple", "-html">>, Pattern("simple-html#2", <<Txt(<<"2">>)>>), <<>>),
      Message(<<"parent", "-plain">>, Pattern("parent-plain#2", <<Txt(<<"O">>)>>),
              <<Attribute(<<"attr", "-html">>, Pattern("parent-plain.attr-html#2", <<Txt(<<"o">>)>>))>>),
      Term(<<"-", "term", "-plain">>, Pattern("-term-plain#2", <<Txt(<<"K">>)>>), <<>>),
      Junk,
      Message(<<"again", "-html">>, Pattern("again-html#1", <<Txt(<<"1">>)>>), <<>>),
      Message(<<"again", "-html">>, Pattern("again-html#2", <<Txt(<<"2">>)>>), <<>>)>>

\* A string of n characters.
Xs(n) == [i \in 1..n |-> "x"]

\* Messages with more parts than MAX_PARTS: one pattern of MAX_PARTS + 1
\* text elements, and a message of 11 references to a message of 10
\* references to a message of 10 text elements; a text element of more
\* than MAX_PART_LENGTH characters, and a message that renders its argument.
SrcLarge ==
    <<Message(<<"wide", "-html">>,
              Pattern("wide-html", [i \in 1..(MAX_PARTS + 1) |-> Txt(<<"x">>)]), <<>>),
      Message(<<"big", "-html">>,
              Pattern("big-html", [i \in 1..11 |-> Ref(<<"mid", "-html">>)]), <<>>),
      Message(<<"mid", "-html">>,
              Pattern("mid-html", [i \in 1..10 |-> Ref(<<"ten", "-html">>)]), <<>>),
      Message(<<"ten", "-html">>,
              Pattern("ten-html", [i \in 1..10 |-> Txt(<<"x">>)]), <<>>),
      Message(<<"long", "-html">>, Pattern("long-html", <<Txt(Xs(MAX_PART_LENGTH + 1))>>), <<>>),
      Message(<<"longarg", "-html">>, Pattern("longarg-html", <<Txt(<<"A">>), Arg>>), <<>>)>>

\* Calls of functions: of one that is not registered, with the arguments
\* the function takes, with too few and too many positional arguments,
\* with a keyword the function does not take, with both faults, and of the
\* functions that take a keyword and that take anything.
Call(callee, positional, named) == Placeable(CallExpression(callee, positional, named))
StyleArgument == NamedArgument(<<"style">>, StringLiteral(<<"s">>))
SrcCalls ==
    <<Message(<<"unknown", "-html">>,
              Pattern("unknown-html", <<Call(<<"MISSING">>, <<VariableReference(<<"arg">>)>>, <<>>)>>), <<>>),
      Message(<<"quote", "-html">>,
              Pattern("quote-html", <<Call(<<"QUOTE">>, <<VariableReference(<<"arg">>)>>, <<>>)>>), <<>>),
      Message(<<"quote0", "-html">>,
              Pattern("quote0-html", <<Call(<<"QUOTE">>, <<>>, <<>>)>>), <<>>),
      Message(<<"quote2", "-html">>,
              Pattern("quote2-html",
                      <<Call(<<"QUOTE">>, <<VariableReference(<<"arg">>), StringLiteral(<<"x">>)>>, <<>>)>>),
              <<>>),
      Message(<<"quote-style", "-html">>,
              Pattern("quote-style-html",
                      <<Call(<<"QUOTE">>, <<VariableReference(<<"arg">>)>>, <<StyleArgument>>)>>), <<>>),
      Message(<<"quote0-style", "-html">>,
              Pattern("quote0-style-html", <<Call(<<"QUOTE">>, <<>>, <<StyleArgument>>)>>), <<>>),
      Message(<<"opt", "-html">>,
              Pattern("opt-html",
                      <<Call(<<"OPT">>, <<VariableReference(<<"arg">>)>>, <<StyleArgument>>)>>), <<>>),
      Message(<<"opt-plain", "-html">>,
              Pattern("opt-plain-html", <<Call(<<"OPT">>, <<VariableReference(<<"arg">>)>>, <<>>)>>), <<>>),
      Message(<<"opt-other", "-html">>,
              Pattern("opt-other-html",
                      <<Call(<<"OPT">>, <<VariableReference(<<"arg">>)>>,
                             <<NamedArgument(<<"other">>, StringLiteral(<<"s">>))>>)>>), <<>>),
      Message(<<"any", "-html">>,
              Pattern("any-html",
                      <<Call(<<"ANY">>, <<VariableReference(<<"arg">>), StringLiteral(<<"x">>)>>,
                             <<StyleArgument>>)>>), <<>>),
      Message(<<"any0", "-html">>,
              Pattern("any0-html", <<Call(<<"ANY">>, <<>>, <<>>)>>), <<>>)>>

\* References that find nothing: to an attribute its message does not have,
\* the message being one of the caller's escaper, of no escaper and of
\* another escaper; to an attribute of a message that does not exist; to a
\* message and to a term that do not exist, under the caller's escaper,
\* under another one and under none, with text and an argument after the
\* reference; and a message that refers twice to one that does.
SrcRefs ==
    <<Message(<<"p", "-html">>, Pattern("p-html", <<Txt(<<"P", "&">>)>>),
              <<Attribute(<<"title">>, Pattern("p-html.title", <<Txt(<<"t">>)>>))>>),
      Message(<<"p", "-plain">>, Pattern("p-plain", <<Txt(<<"S", "&">>)>>), <<>>),
      Message(<<"p", "-md">>, Pattern("p-md", <<Txt(<<"*", "m", "*">>)>>), <<>>),
      Message(<<"attr-missing", "-html">>,
              Pattern("attr-missing-html", <<Placeable(AttributeExpression(<<"p", "-html">>, <<"nope">>))>>), <<>>),
      Message(<<"attr-missing-plain", "-html">>,
              Pattern("attr-missing-plain-html", <<Placeable(AttributeExpression(<<"p", "-plain">>, <<"nope">>))>>), <<>>),
      Message(<<"attr-missing-md", "-html">>,
              Pattern("attr-missing-md-html", <<Placeable(AttributeExpression(<<"p", "-md">>, <<"nope">>))>>), <<>>),
      Message(<<"attr-absent", "-html">>,
              Pattern("attr-absent-html", <<Placeable(AttributeExpression(<<"nobody", "-html">>, <<"nope">>))>>), <<>>),
      Message(<<"msg-missing", "-html">>,
              Pattern("msg-missing-html", <<Ref(<<"nope", "-html">>), Txt(<<"<">>), Arg>>), <<>>),
      Message(<<"msg-missing-md", "-html">>,
              Pattern("msg-missing-md-html", <<Ref(<<"nope", "-md">>), Txt(<<"<">>), Arg>>), <<>>),
      Message(<<"msg-missing-plain", "-html">>,
              Pattern("msg-missing-plain-html", <<Ref(<<"nope">>), Txt(<<"<">>), Arg>>), <<>>),
      Message(<<"term-missing", "-html">>,
              Pattern("term-missing-html", <<Ref(<<"-", "nope">>), Txt(<<"<">>), Arg>>), <<>>),
      Message(<<"term-missing", "-md">>,
              Pattern("term-missing-md", <<Ref(<<"-", "nope", "-html">>), Txt(<<"*">>), Arg>>), <<>>),
      Message(<<"both", "-html">>,
              Pattern("both-html", <<Ref(<<"p", "-html">>), Ref(<<"p", "-html">>)>>), <<>>)>>

Sources == {"escaping", "markdown", "cycles", "redefine"}
CallSources == {"calls"}
RefSources == {"refs"}
LargeSources == {"large", "cycles"}

\* FluentParser().parse(source).body
Resource(source) ==
    CASE source = "escaping" -> SrcEscaping
      [] source = "markdown" -> SrcMarkdown
      [] source = "cycles" -> SrcCycles
      [] source = "redefine" -> SrcRedefine
      [] source = "large" -> SrcLarge
      [] source = "calls" -> SrcCalls
      [] source = "refs" -> SrcRefs

\* References to the nodes of a parsed resource, and the node referred to.
ItemRef(load, source, item) == [load |-> load, source |-> source, item |-> item, attr |-> 0]
AttrRef(ref, attr) == [ref EXCEPT !.attr = attr]
Node(ref) ==
    IF ref.attr = 0 THEN Resource(ref.source)[ref.item]
    ELSE Resource(ref.source)[ref.item].attributes[ref.attr]

\* The contexts: the escapers and the use_isolating given to __init__
\* (context.py:32-45).
ContextConfigs ==
    {[escapers |-> <<>>, use_isolating |-> TRUE],
     [escapers |-> <<HtmlEscaper("False")>>, use_isolating |-> TRUE],
     [escapers |-> <<HtmlEscaper("None")>>, use_isolating |-> TRUE],
     [escapers |-> <<HtmlEscaper("None")>>, use_isolating |-> FALSE],
     [escapers |-> <<HtmlEscaper("False"), MarkdownEscaper>>, use_isolating |-> TRUE]}

\* The args of a format call: omitted (None), or a mapping that gives arg.
ArgsOf(v) == [name \in {<<"arg">>} |-> v]
ArgsChoices ==
    {PyNone,
     ArgsOf(Text(<<"J", "&", "J">>)),
     ArgsOf(Markup(<<"<", "b", ">">>)),
     ArgsOf(Object),
     ArgsOf(PyInt(1))}
LargeArgsChoices ==
    {PyNone,
     ArgsOf(PyInt(1)),
     ArgsOf(Text(Xs(MAX_PART_LENGTH))),
     ArgsOf(Text(Xs(MAX_PART_LENGTH + 1)))}

\* The args given to the compiling format, and to it in the large context.
CompilingArgsChoices == {PyNone, ArgsOf(Text(<<"J", "&", "J">>))}
LargeCompilingArgsChoices == {PyNone, ArgsOf(PyInt(1))}

\* An id that no resource defines.
AbsentId == <<"absent">>

-----------------------------------------------------------------------------
(* Errors appended to env.errors, and what a resolver function returns *)

Error(kind, msg, about) == [kind |-> kind, msg |-> msg, about |-> about]

Ok(val, env) == [val |-> val, env |-> env, exc |-> ""]
Raise(exc, env) == [val |-> PyNone, env |-> env, exc |-> exc]
AddError(env, error) == [env EXCEPT !.errors = Append(@, error)]

\* ResolverEnvironment as resolve() builds it (resolver.py:82-88), with the
\* history the claims speak about: emitted, the largest number of elements
\* one pattern turned into parts; cap_nones, the substitutes appended at the
\* MAX_PARTS cap; late_parts, the elements that became parts although the
\* counter stood over MAX_PARTS when the loop came to them; longest, the
\* length of the longest part appended for an element; invoked, the names
\* of the functions that were called, in the order of the calls; joined,
\* the classes of the parts handed to the join of an escaper, each with the
\* output type of that escaper; marked, the classes of the values handed to
\* mark_escaped.
NewEnvironment(args, escaper) ==
    [args |-> args, errors |-> <<>>, dirty |-> {}, part_count |-> 0,
     escaper |-> escaper, emitted |-> 0, cap_nones |-> 0, late_parts |-> 0,
     longest |-> 0, invoked |-> <<>>, joined |-> {}, marked |-> {}]

\* context._functions: the QUOTE of tests/format/test_escapers.py:106-107,
\* and two more functions a caller registers, def OPT(arg, style="s") and
\* def ANY(*args, **kwargs), with their inspected argument specs
\* (utils.py:62-88): QUOTE one positional and no keyword, OPT one
\* positional and the keyword style, ANY any of both.  positional_any and
\* keywords_any say that the entry is Any.
Functions == {<<"QUOTE">>, <<"OPT">>, <<"ANY">>}
functions_arg_spec(name) ==
    CASE name = <<"OPT">> ->
            [positional |-> 1, positional_any |-> FALSE,
             keywords |-> {<<"style">>}, keywords_any |-> FALSE]
      [] name = <<"ANY">> ->
            [positional |-> 0, positional_any |-> TRUE, keywords |-> {}, keywords_any |-> TRUE]
      [] OTHER ->
            [positional |-> 1, positional_any |-> FALSE, keywords |-> {}, keywords_any |-> FALSE]

\* function(*args, **kwargs).  QUOTE(arg): arg.split exists on strings
\* only, the result is a plain str; OPT and ANY return a plain str whatever
\* they are given.
CallFunction(name, args, env) ==
    IF name = <<"QUOTE">>
    THEN IF IsInstance(args[1], "text")
         THEN Ok(Text(<<"\n", ">", " ">> \o args[1].s),
                 [env EXCEPT !.invoked = Append(@, name)])
         ELSE Raise("AttributeError", [env EXCEPT !.invoked = Append(@, name)])
    ELSE Ok(Text(name), [env EXCEPT !.invoked = Append(@, name)])

\* An args_match that looks at the positional arguments only.
args_match_positional(function_name, args, kwargs, arg_spec) ==
    IF ~arg_spec.positional_any /\ ~(arg_spec.positional = Len(args))
    THEN [match |-> FALSE, error |-> Error("TypeError", "positional arguments", function_name)]
    ELSE [match |-> TRUE, error |-> PyNone]

\* utils.py:116-150
args_match(function_name, args, kwargs, arg_spec) ==
    IF ~arg_spec.keywords_any /\ ~(\A i \in 1..Len(kwargs) : kwargs[i].name \in arg_spec.keywords)
    THEN [match |-> FALSE, error |-> Error("TypeError", "unexpected keyword argument", function_name)]
    ELSE IF ~arg_spec.positional_any /\ ~(arg_spec.positional = Len(args))
    THEN [match |-> FALSE, error |-> Error("TypeError", "positional arguments", function_name)]
    ELSE [match |-> TRUE, error |-> PyNone]

\* float and decimal.Decimal values, held in tenths (t = 15 is 1.5); only
\* whole and half numbers are used, which a float holds exactly.
PyFloat(t) == [type |-> "float", t |-> t]
PyDecimal(t) == [type |-> "Decimal", t |-> t]

\* The numeric types of Python that compare with each other by value, and
\* the value in tenths.
IsNumeric(val) == val.type \in {"int", "float", "Decimal"}
Tenths(val) == IF val.type = "int" THEN 10 * val.n ELSE val.t

\* val1 == val2 in Python: numbers by value, strings by their characters,
\* a number and a string never equal.
PyEq(val1, val2) ==
    IF IsNumeric(val1) /\ IsNumeric(val2) THEN Tenths(val1) = Tenths(val2)
    ELSE IF IsInstance(val1, "text") /\ IsInstance(val2, "text") THEN val1.s = val2.s
    ELSE val1 = val2

\* context.plural_form_for_number for en-US (babel), of a number given in
\* tenths: 1 is "one".
plural_form_for_number(t) == IF t = 10 THEN Text(<<"one">>) ELSE Text(<<"other">>)

\* resolver.py:347-348: isinstance(val, (int, float)).
is_number(val) == val.type \in {"int", "float"}

\* resolver.py:351-364
RECURSIVE match(_, _)
match(val1, val2) ==
    IF val1.type \in {"NoneType", "FluentNone"} THEN FALSE
    ELSE IF val2.type \in {"NoneType", "FluentNone"} THEN FALSE
    ELSE IF is_number(val1) /\ ~is_number(val2)
         THEN PyEq(plural_form_for_number(Tenths(val1)), val2)
    ELSE IF ~is_number(val1) /\ is_number(val2) THEN match(val2, val1)
    ELSE PyEq(val1, val2)

\* The cap test one part late.
OverMaxParts_late(part_count) == part_count > MAX_PARTS + 1

\* resolver.py:148: the cap test on the counter of the whole call.
OverMaxParts(part_count) == part_count > MAX_PARTS

\* resolver.py:149: "Only append an error once."
FirstOverMaxParts(part_count) == part_count = MAX_PARTS + 1

\* resolver.py:141-144
UseIsolating(escaper, pattern) ==
    /\ IF escaper.use_isolating # "None"
       THEN escaper.use_isolating = "True"
       ELSE _use_isolating
    /\ Len(pattern.elements) > 1

\* resolver.py:164-175: len(part) raises TypeError on a type without
\* __len__ (Markdown), and then the part is kept as it is.
HasLen(part) == IsInstance(part, "text")
TooLong(part) == HasLen(part) /\ Len(part.s) > MAX_PART_LENGTH
Truncate(part) == [part EXCEPT !.s = SubSeq(@, 1, MAX_PART_LENGTH)]

\* resolver.py:57-68: the with block of env.modified(escaper=...) around a
\* nested resolution r entered with the environment env0: the old frame is
\* put back after the yield, which an exception never reaches.
Modified(env0, r) ==
    IF r.exc # "" THEN r ELSE [r EXCEPT !.env.escaper = env0.escaper]

\* attr_name=None
NoAttr == <<>>

RECURSIVE handle(_, _)
RECURSIVE fully_resolve(_, _)
RECURSIVE handle_pattern(_, _)
RECURSIVE pattern_step(_, _, _, _)
RECURSIVE pattern_loop(_, _, _, _, _, _)
RECURSIVE lookup_reference(_, _, _)
RECURSIVE select_from_variant_list(_, _, _)
RECURSIVE select_from_select_expression(_, _, _)
RECURSIVE handle_call_expression(_, _)
RECURSIVE handle_all(_, _, _)

\* resolver.py:102-107: what fully_resolve does with retval, r being what
\* handle(expr, env) gave.
fully_resolved(r) ==
    IF r.exc # "" THEN r
    ELSE IF ~HasAttr(r.env.escaper, "output_type") THEN Raise("AttributeError", r.env)
    ELSE IF IsInstance(r.val, r.env.escaper.output_type) THEN r
    ELSE IF IsInstance(r.val, "text") THEN Ok(escape(r.env.escaper, r.val), r.env)
    ELSE fully_resolve(r.val, r.env)

\* resolver.py:93-107
fully_resolve(expr, env) == fully_resolved(handle(expr, env))

\* One more element of a pattern has become a part; count is what
\* env.part_count was when the loop came to the element.
Counted(env, count) ==
    [env EXCEPT !.late_parts = IF count > MAX_PARTS THEN @ + 1 ELSE @]

\* parts.append(part) for an element (resolver.py:158, 176): the length of
\* the part, where it has one, goes into the history.
Appended(env, part) ==
    [env EXCEPT !.longest = IF HasLen(part) /\ Len(part.s) > @ THEN Len(part.s) ELSE @]

\* resolver.py:147-178: the body of the for loop of handle_pattern for one
\* element; st is [parts, n, env, exc, done]: the parts built so far, the
\* number of elements that became parts, the environment, the exception
\* raised, and whether the loop has met its break.
pattern_step(element, escaper, use_isolating, st) ==
    LET env1 == [st.env EXCEPT !.part_count = @ + 1]
    IN  IF OverMaxParts(env1.part_count)
        THEN IF FirstOverMaxParts(env1.part_count)
             THEN LET r == fully_resolve(FluentNone(<<>>),
                              AddError(env1, Error("ValueError", "Too many parts in message", <<>>)))
                  IN  IF r.exc # ""
                      THEN [st EXCEPT !.env = r.env, !.exc = r.exc]
                      ELSE [st EXCEPT !.parts = Append(@, r.val),
                                      !.env = [r.env EXCEPT !.cap_nones = @ + 1],
                                      !.done = TRUE]
             ELSE [st EXCEPT !.env = env1, !.done = TRUE]
        ELSE IF element.type = "TextElement"
        THEN LET r == handle(element, env1)
             IN  IF r.exc # ""
                 THEN [st EXCEPT !.env = r.env, !.exc = r.exc]
                 ELSE [st EXCEPT !.parts = Append(@, r.val), !.n = @ + 1,
                                 !.env = Appended(Counted(r.env, env1.part_count), r.val)]
        ELSE LET r == fully_resolve(element, env1)
                 env2 == IF TooLong(r.val)
                         THEN AddError(r.env, Error("ValueError", "Too many characters in part", <<>>))
                         ELSE r.env
                 part == IF TooLong(r.val) THEN Truncate(r.val) ELSE r.val
             IN  IF r.exc # ""
                 THEN [st EXCEPT !.env = r.env, !.exc = r.exc]
                 ELSE [st EXCEPT !.parts = IF use_isolating
                                           THEN @ \o <<escape(escaper, Text(<<FSI>>)), part,
                                                       escape(escaper, Text(<<PDI>>))>>
                                           ELSE Append(@, part),
                                 !.n = @ + 1,
                                 !.env = Appended(Counted(env2, env1.part_count), part)]

\* resolver.py:146: for element in pattern.elements, over the elements
\* lo..hi in order (by halves, to keep the evaluation shallow); an
\* exception or the break ends the loop.
pattern_loop(pattern, lo, hi, escaper, use_isolating, st) ==
    IF st.done \/ st.exc # "" \/ lo > hi THEN st
    ELSE IF lo = hi THEN pattern_step(pattern.elements[lo], escaper, use_isolating, st)
    ELSE LET m == (lo + hi) \div 2
         IN  pattern_loop(pattern, m + 1, hi, escaper, use_isolating,
                          pattern_loop(pattern, lo, m, escaper, use_isolating, st))

\* escaper.string_join(parts) is called (resolver.py:179): the classes of
\* the parts go into the history.
Handed(env, escaper, parts) ==
    [env EXCEPT !.joined = @ \cup {[output_type |-> IF HasAttr(escaper, "output_type")
                                                     THEN escaper.output_type ELSE "",
                                     part |-> parts[i].type] : i \in 1..Len(parts)}]

\* escaper.mark_escaped(value) is called (resolver.py:186).
Marked(env, value) == [env EXCEPT !.marked = @ \cup {value.type}]

\* A join that leaves the pattern in dirty.
join_parts_dirty(pattern, escaper, loop) ==
    LET joined == string_join(escaper, loop.parts)
        n == loop.n
    IN  IF loop.exc # "" THEN Raise(loop.exc, loop.env)
        ELSE IF ~HasAttr(escaper, "string_join") THEN Raise("AttributeError", loop.env)
        ELSE IF joined.exc # "" THEN Raise(joined.exc, Handed(loop.env, escaper, loop.parts))
        ELSE Ok(joined.val,
                [Handed(loop.env, escaper, loop.parts)
                    EXCEPT !.emitted = IF n > @ THEN n ELSE @])

\* resolver.py:179-181: the join of the parts and the removal from dirty,
\* loop being the state the for loop ended in.
join_parts(pattern, escaper, loop) ==
    LET joined == string_join(escaper, loop.parts)
        n == loop.n
    IN  IF loop.exc # "" THEN Raise(loop.exc, loop.env)
        ELSE IF ~HasAttr(escaper, "string_join") THEN Raise("AttributeError", loop.env)
        ELSE IF joined.exc # "" THEN Raise(joined.exc, Handed(loop.env, escaper, loop.parts))
        ELSE Ok(joined.val,
                [Handed(loop.env, escaper, loop.parts)
                    EXCEPT !.dirty = @ \ {pattern.pid},
                           !.emitted = IF n > @ THEN n ELSE @])

\* resolver.py:131-181
handle_pattern(pattern, env) ==
    IF pattern.pid \in env.dirty
    THEN Ok(FluentNone(<<>>), AddError(env, Error("FluentCyclicReferenceError", "Cyclic reference", <<>>)))
    ELSE
    LET env1 == [env EXCEPT !.dirty = @ \cup {pattern.pid}]
        escaper == env1.escaper
    IN  IF ~HasAttr(escaper, "use_isolating") THEN Raise("AttributeError", env1)
        ELSE join_parts(pattern, escaper,
                        pattern_loop(pattern, 1, Len(pattern.elements), escaper,
                                     UseIsolating(escaper, pattern),
                                     [parts |-> <<>>, n |-> 0, env |-> env1, exc |-> "",
                                      done |-> FALSE]))

\* resolver.py:220-252; attr_name is NoAttr for None.  Gives
\* [message, new_escaper, env].
lookup_reference(env, message_name, attr_name) ==
    LET message_id == IF attr_name = NoAttr THEN message_name
                      ELSE message_id_for_attr(message_name, attr_name)
        current_escaper == env.escaper
        is_term == Head(message_id) = "-"
        store == IF is_term THEN _terms ELSE _messages
        what == IF attr_name # NoAttr THEN "Unknown attribute"
                ELSE IF is_term THEN "Unknown term" ELSE "Unknown message"
        found == Has(store, message_id)
        env1 == IF found THEN env
                ELSE AddError(env, Error("FluentReferenceError", what, message_id))
    IN  IF ~found /\ attr_name # NoAttr /\ Has(store, message_name)
        THEN lookup_reference(env1, message_name, NoAttr)
        ELSE
        LET message == IF found THEN Node(Get(store, message_id)) ELSE FluentNone(message_id)
            new_escaper == escaper_for_message(_escapers, message_id)
        IN  IF ~escapers_compatible(current_escaper, new_escaper)
            THEN [message |-> FluentNone(message_id),
                  new_escaper |-> current_escaper,
                  env |-> AddError(env1, Error("TypeError", "Escaper cannot be used from calling context", message_id))]
            ELSE [message |-> message, new_escaper |-> new_escaper, env |-> env1]

\* resolver.py:445-455: the tuple of classes reads the output type of the
\* current escaper before isinstance looks at the argument.
handle_argument(arg, name, env) ==
    IF ~HasAttr(env.escaper, "output_type") THEN Raise("AttributeError", env)
    ELSE IF \/ arg.type \in {"int", "float", "Decimal", "date", "datetime"}
            \/ IsInstance(arg, "text")
            \/ IsInstance(arg, env.escaper.output_type)
    THEN Ok(arg, env)
    ELSE Ok(FluentNone(name),
            AddError(env, Error("TypeError", "Unsupported external type", name)))

\* resolver.py:266-276
handle_variable_reference(argument, env) ==
    LET name == argument.id
    IN  IF name \notin DOMAIN env.args
        THEN Ok(FluentNone(name),
                AddError(env, Error("FluentReferenceError", "Unknown external", name)))
        ELSE handle_argument(env.args[name], name, env)

\* date and datetime values (datetime is a subclass of date).
PyDate == [type |-> "date"]
PyDatetime == [type |-> "datetime"]

\* fluent.types.fluent_number and fluent_date: the value wrapped as a
\* locale-aware number and as a locale-aware date.
fluent_number(arg) == [type |-> "FluentNumber", value |-> arg]
fluent_date(arg) == [type |-> "FluentDate", value |-> arg]

\* runtime.py:39-49; gives [val, errors].
handle_argument_null_escaper(arg, name, errors) ==
    IF IsInstance(arg, "text") THEN [val |-> arg, errors |-> errors]
    ELSE IF arg.type \in {"int", "float", "Decimal"}
    THEN [val |-> fluent_number(arg), errors |-> errors]
    ELSE IF arg.type \in {"date", "datetime"}
    THEN [val |-> fluent_date(arg), errors |-> errors]
    ELSE [val |-> Text(name),
          errors |-> Append(errors, Error("TypeError", "Unsupported external type", name))]

\* runtime.py:25-36; gives [val, errors].
runtime_handle_argument(arg, name, output_type, errors) ==
    IF IsInstance(arg, output_type) THEN [val |-> arg, errors |-> errors]
    ELSE handle_argument_null_escaper(arg, name, errors)

\* A loop without the break: found is the last variant whose key matches.
FoundVariant_last(variants, key) ==
    IF \E i \in 1..Len(variants) : match(key, variants[i].key)
    THEN CHOOSE i \in 1..Len(variants) :
            /\ match(key, variants[i].key)
            /\ \A j \in (i + 1)..Len(variants) : ~match(key, variants[j].key)
    ELSE 0

\* The index of the variant a loop over the variants stops at with
\* found set, 0 when it runs to the end (resolver.py:297-307, 330-337).
FoundVariant(variants, key) ==
    IF \E i \in 1..Len(variants) : match(key, variants[i].key)
    THEN CHOOSE i \in 1..Len(variants) :
            /\ match(key, variants[i].key)
            /\ \A j \in 1..(i - 1) : ~match(key, variants[j].key)
    ELSE 0

\* The last variant marked default that a loop running to the end has seen,
\* and the first one, where select_from_variant_list breaks on a None key.
DefaultVariant(variants) ==
    LET seen == {i \in 1..Len(variants) : variants[i].default}
    IN  IF seen = {} THEN 0 ELSE CHOOSE i \in seen : \A j \in seen : j <= i

FirstDefaultVariant(variants) ==
    LET seen == {i \in 1..Len(variants) : variants[i].default}
    IN  IF seen = {} THEN 0 ELSE CHOOSE i \in seen : \A j \in seen : i <= j

\* handle(variant.key, env): a VariantName gives its name, a NumberLiteral
\* its number (resolver.py:199-201, 367-369).
KeyValue(key) == IF key.type = "VariantName" THEN Text(key.name) ELSE PyInt(key.value)

KeyedVariants(variants) ==
    [i \in 1..Len(variants) |-> [variants[i] EXCEPT !.key = KeyValue(@)]]

\* resolver.py:295-317; key is PyNone for None.
select_from_variant_list(variant_list, env, key) ==
    LET variants == KeyedVariants(variant_list.variants)
        found == IF key = PyNone THEN 0 ELSE FoundVariant(variants, key)
        default == IF key = PyNone THEN FirstDefaultVariant(variants)
                   ELSE DefaultVariant(variants)
        env1 == IF found = 0 /\ key.type \notin {"NoneType", "FluentNone"}
                THEN AddError(env, Error("FluentReferenceError", "Unknown variant", key.s))
                ELSE env
    IN  IF found # 0 THEN handle(variants[found].value, env)
        ELSE IF default = 0 THEN Raise("UnboundLocalError", env1)
        ELSE handle(variants[default].value, env1)

\* resolver.py:327-344
select_from_select_expression(expression, env, key) ==
    LET variants == KeyedVariants(expression.variants)
        found == FoundVariant(variants, key)
        default == DefaultVariant(variants)
    IN  IF found # 0 THEN handle(variants[found].value, env)
        ELSE IF default = 0 THEN Ok(FluentNone(<<>>), env)
        ELSE handle(variants[default].value, env)

\* [handle(arg, env) for arg in exprs] from expression i on: [vals, env, exc].
handle_all(exprs, i, acc) ==
    IF i > Len(exprs) \/ acc.exc # "" THEN acc
    ELSE LET r == handle(exprs[i], acc.env)
         IN  handle_all(exprs, i + 1,
                        [vals |-> IF r.exc = "" THEN Append(acc.vals, r.val) ELSE acc.vals,
                         env |-> r.env, exc |-> r.exc])

\* resolver.py:389-406
handle_call_expression(expression, env) ==
    LET function_name == expression.callee
    IN  IF function_name \notin Functions
        THEN Ok(FluentNone(function_name \o <<"()">>),
                AddError(env, Error("FluentReferenceError", "Unknown function", function_name)))
        ELSE
        LET args == handle_all(expression.positional, 1, [vals |-> <<>>, env |-> env, exc |-> ""])
            named == [i \in 1..Len(expression.named) |-> expression.named[i].value]
            kwvals == handle_all(named, 1, [vals |-> <<>>, env |-> args.env, exc |-> ""])
            kwargs == [i \in 1..Len(kwvals.vals) |->
                         [name |-> expression.named[i].name, value |-> kwvals.vals[i]]]
            m == args_match(function_name, args.vals, kwargs, functions_arg_spec(function_name))
        IN  IF args.exc # "" THEN Raise(args.exc, args.env)
            ELSE IF kwvals.exc # "" THEN Raise(kwvals.exc, kwvals.env)
            ELSE IF m.match THEN CallFunction(function_name, args.vals, kwvals.env)
            ELSE Ok(FluentNone(function_name \o <<"()">>), AddError(kwvals.env, m.error))

\* with env.modified(escaper=new_escaper): return handle(message, env),
\* l being what lookup_reference gave (resolver.py:208-209, 216-217,
\* 286-287).
handle_under(l) ==
    Modified(l.env, handle(l.message, [l.env EXCEPT !.escaper = l.new_escaper]))

\* resolver.py:204-217: handle_message_reference and handle_term_reference
handle_reference(reference, env) ==
    handle_under(lookup_reference(env, reference.id, NoAttr))

\* resolver.py:284-287
handle_attribute_under(l) ==
    IF l.message.type = "FluentNone" THEN Ok(l.message, l.env)
    ELSE handle_under(l)

\* resolver.py:279-287
handle_attribute_expression(attribute, env) ==
    handle_attribute_under(lookup_reference(env, attribute.ref, attribute.name))

\* resolver.py:375-386
handle_variant_under(expression, l) ==
    IF l.message.type = "FluentNone" THEN Ok(l.message, l.env)
    ELSE IF l.message.value.type # "VariantList" THEN Raise("AssertionError", l.env)
    ELSE Modified(l.env,
            select_from_variant_list(l.message.value,
                                     [l.env EXCEPT !.escaper = l.new_escaper],
                                     Text(expression.key)))

\* resolver.py:372-386
handle_variant_expression(expression, env) ==
    handle_variant_under(expression, lookup_reference(env, expression.ref, NoAttr))

\* resolver.py:260-263
handle_none(none, env) == Raise("LookupError", env)

\* resolver.py:110-441: the single dispatch on the class of expr.
handle(expr, env) ==
    CASE expr.type \in {"Message", "Term", "Attribute"} -> handle(expr.value, env)
      [] expr.type = "Pattern" -> handle_pattern(expr, env)
      [] expr.type = "TextElement" ->
            Ok(mark_escaped(env.escaper, expr.value), Marked(env, Text(expr.value)))
      [] expr.type = "Placeable" -> handle(expr.expression, env)
      [] expr.type = "StringLiteral" -> Ok(Text(expr.value), env)
      [] expr.type = "NumberLiteral" -> Ok(PyInt(expr.value), env)
      [] expr.type \in {"MessageReference", "TermReference"} -> handle_reference(expr, env)
      [] expr.type = "FluentNone" -> Ok(Text(FluentNoneFormat(expr)), env)
      [] expr.type = "NoneType" -> handle_none(expr, env)
      [] expr.type = "VariableReference" -> handle_variable_reference(expr, env)
      [] expr.type = "AttributeExpression" -> handle_attribute_expression(expr, env)
      [] expr.type = "VariantList" -> select_from_variant_list(expr, env, PyNone)
      [] expr.type = "SelectExpression" ->
            LET k == handle(expr.selector, env)
            IN  IF k.exc # "" THEN k
                ELSE select_from_select_expression(expr, k.env, k.val)
      [] expr.type = "VariantName" -> Ok(Text(expr.name), env)
      [] expr.type = "VariantExpression" -> handle_variant_expression(expr, env)
      [] expr.type = "CallExpression" -> handle_call_expression(expr, env)
      [] expr.type = "int" -> Ok(Text(FluentNumberFormat(expr.n)), env)
      [] OTHER -> Raise("TypeError", env)

\* resolver.py:71-90, after the lookup of the message: the value and the
\* environment of the call, or the exception it raised.
resolve(message, message_id, args) ==
    fully_resolve(message, NewEnvironment(args, escaper_for_message(_escapers, message_id)))

-----------------------------------------------------------------------------
(* MessageContextBase *)

\* utils.py:153-160: the entry of the item, then one entry for each of its
\* attributes from attribute i on.
RECURSIVE add_attrs_to_store(_, _, _, _)
add_attrs_to_store(store, name, item, i) ==
    IF i > Len(Node(item).attributes) THEN store
    ELSE add_attrs_to_store(Put(store, message_id_for_attr(name, Node(item).attributes[i].id),
                                AttrRef(item, i)),
                            name, item, i + 1)

add_message_and_attrs_to_store(store, name, item) ==
    add_attrs_to_store(Put(store, name, item), name, item, 1)

DuplicateIssue(name) == [id |-> name, kind |-> "FluentDuplicateMessageId"]
JunkIssue == [id |-> <<>>, kind |-> "FluentJunkFound"]

\* An _add_message that overwrites without recording an issue.
_add_message_silent(store, issues, name, item) ==
    [store |-> add_message_and_attrs_to_store(store, name, item), issues |-> issues]

\* context.py:62-66: gives [store, issues].
_add_message(store, issues, name, item) ==
    [store |-> add_message_and_attrs_to_store(store, name, item),
     issues |-> IF Has(store, name) THEN Append(issues, DuplicateIssue(name)) ELSE issues]

\* context.py:51-60: the loop over resource.body from item i on; ctx is
\* [messages, terms, issues], body the references to the items.
RECURSIVE add_items(_, _, _)
add_items(body, i, ctx) ==
    IF i > Len(body) THEN ctx
    ELSE LET item == Node(body[i])
             m == _add_message(ctx.messages, ctx.issues, item.id, body[i])
             t == _add_message(ctx.terms, ctx.issues, item.id, body[i])
         IN  add_items(body, i + 1,
                CASE item.type = "Message" -> [ctx EXCEPT !.messages = m.store, !.issues = m.issues]
                  [] item.type = "Term" -> [ctx EXCEPT !.terms = t.store, !.issues = t.issues]
                  [] item.type = "Junk" -> [ctx EXCEPT !.issues = Append(@, JunkIssue)]
                  [] OTHER -> ctx)

\* What a public call gave: exc is the class of the exception raised to the
\* caller, "" when the call returned; before is the context as add_messages
\* found it.
Idle == [op |-> "idle"]

Context == [messages |-> _messages, terms |-> _terms, issues |-> _parsing_issues]

\* A _mark_dirty that marks the compiled form as good.
_mark_dirty_clean == [_is_dirty |-> FALSE, _compilation_errors |-> <<>>]

\* context.py:133-137: what _mark_dirty assigns.
_mark_dirty == [_is_dirty |-> TRUE, _compilation_errors |-> <<>>]

\* context.py:47-60, and context.py:139-141 with _mark_dirty (133-137).
AddMessages(source) ==
    /\ call = Idle
    /\ n_loads < MaxLoads
    /\ LET body == [i \in 1..Len(Resource(source)) |-> ItemRef(n_loads + 1, source, i)]
           ctx == add_items(body, 1, Context)
       IN  /\ _messages' = ctx.messages
           /\ _terms' = ctx.terms
           /\ _parsing_issues' = ctx.issues
           /\ call' = [op |-> "add_messages", source |-> source, before |-> Context]
    /\ _is_dirty' = _mark_dirty._is_dirty
    /\ _compilation_errors' = _mark_dirty._compilation_errors
    /\ n_loads' = n_loads + 1
    /\ UNCHANGED <<_escapers, _use_isolating, _compiled_messages>>

\* A store that gives an empty message for an id it does not hold
\* (a defaultdict).
_get_message_default(message_id) ==
    IF Has(_messages, message_id)
    THEN [node |-> Node(Get(_messages, message_id)), exc |-> ""]
    ELSE [node |-> Message(message_id, Pattern("", <<>>), <<>>), exc |-> ""]

\* context.py:81-82: self._messages[message_id] raises KeyError.
_get_message(message_id) ==
    IF Has(_messages, message_id)
    THEN [node |-> Node(Get(_messages, message_id)), exc |-> ""]
    ELSE [node |-> PyNone, exc |-> "KeyError"]

FormatResult(op, message_id, args, r) ==
    [op |-> op, id |-> message_id, args |-> args, exc |-> r.exc,
     val |-> r.val, errors |-> r.env.errors, env |-> r.env, before |-> Context]

\* resolver.py:71-90 as InterpretingMessageContext.format calls it
\* (context.py:117-122): args None becomes {}.
InterpretingFormatResult(message_id, args) ==
    LET message == _get_message(message_id)
        args1 == IF args = PyNone THEN <<>> ELSE args
    IN  IF message.exc # ""
        THEN Raise(message.exc, NewEnvironment(args1, null_escaper))
        ELSE resolve(message.node, message_id, args1)

\* A format that hands the list of parsing issues to resolve as its error
\* list: the errors of the call land in the list the context owns.
InterpretingFormat_shared(message_id, args) ==
    /\ call = Idle
    /\ call' = FormatResult("interpreting.format", message_id, args,
                            [InterpretingFormatResult(message_id, args)
                                EXCEPT !.env.errors = _parsing_issues \o @])
    /\ _parsing_issues' = call'.errors
    /\ UNCHANGED <<_escapers, _use_isolating, _messages, _terms,
                   _is_dirty, _compilation_errors, _compiled_messages, n_loads>>

InterpretingFormat(message_id, args) ==
    /\ call = Idle
    /\ call' = FormatResult("interpreting.format", message_id, args,
                            InterpretingFormatResult(message_id, args))
    /\ UNCHANGED <<_escapers, _use_isolating, _messages, _terms, _parsing_issues,
                   _is_dirty, _compilation_errors, _compiled_messages, n_loads>>

\* The qualified id a reference expression looks up
\* (resolver.py:220-252: ref_id).
IsReference(expr) ==
    expr.type \in {"MessageReference", "TermReference", "AttributeExpression", "VariantExpression"}

RefTarget(expr) ==
    CASE expr.type \in {"MessageReference", "TermReference"} -> expr.id
      [] expr.type = "AttributeExpression" -> message_id_for_attr(expr.ref, expr.name)
      [] expr.type = "VariantExpression" -> expr.ref

\* The compilation issue of a reference whose target all_messages does not
\* hold: the pair (message id, exception).
CompilationIssue(name) == [id |-> name, kind |-> "FluentReferenceError"]

\* The placeables of the entry's pattern that refer to an id absent from
\* all_messages.
StaticallyMissing(all_messages, node) ==
    IF node.value # PyNone /\ node.value.type = "Pattern"
    THEN SelectSeq(node.value.elements,
                   LAMBDA e : /\ e.type = "Placeable"
                              /\ IsReference(e.expression)
                              /\ ~Has(all_messages, RefTarget(e.expression)))
    ELSE <<>>

RECURSIVE compilation_errors(_, _)
compilation_errors(all_messages, i) ==
    IF i > Len(all_messages) THEN <<>>
    ELSE [j \in 1..Len(StaticallyMissing(all_messages, Node(all_messages[i].node))) |->
             CompilationIssue(all_messages[i].key)]
         \o compilation_errors(all_messages, i + 1)

\* compile_messages (fluent/compiler.py): one callable for each entry of
\* all_messages, and the compilation errors, one for each reference to an
\* id that is absent at compile time.
compile_messages(all_messages) ==
    [compiled |-> all_messages, errors |-> compilation_errors(all_messages, 1)]

\* all_messages.update(self._terms) on a copy of self._messages
\* (context.py:144-146).
RECURSIVE Update(_, _, _)
Update(store, other, i) ==
    IF i > Len(other) THEN store
    ELSE Update(Put(store, other[i].key, other[i].node), other, i + 1)

\* The parameters of a compiled message function
\* (tests/test_compiler.py:56: def foo(message_args, locale, errors)).
CompiledParameters == <<"message_args", "locale", "errors">>

\* Calling a compiled message function with the positional arguments given:
\* Python raises TypeError unless there is one for each parameter; the
\* function then gives what the resolver gives.
CompiledCall(message_id, given) ==
    IF Len(given) # Len(CompiledParameters)
    THEN Raise("TypeError", NewEnvironment(given[1], null_escaper))
    ELSE resolve(Node(Get(_messages, message_id)), message_id, given[1])

\* context.py:155-158, after the compilation: the table is indexed with
\* message_id and the callable called with (args, []).
CompilingFormatResult(table, message_id, args) ==
    IF ~Has(table, message_id)
    THEN Raise("KeyError", NewEnvironment(args, null_escaper))
    ELSE CompiledCall(message_id, <<args, <<>>>>)

\* context.py:143-158
CompilingFormat(message_id, args) ==
    /\ call = Idle
    /\ LET c == compile_messages(Update(_messages, _terms, 1))
           table == IF _is_dirty THEN c.compiled ELSE _compiled_messages
       IN  /\ _compiled_messages' = table
           /\ _compilation_errors' = IF _is_dirty THEN c.errors ELSE _compilation_errors
           /\ call' = FormatResult("compiling.format", message_id, args,
                                   CompilingFormatResult(table, message_id, args))
    /\ _is_dirty' = FALSE
    /\ UNCHANGED <<_escapers, _use_isolating, _messages, _terms, _parsing_issues, n_loads>>

\* The exception classes that except LookupError catches.
LookupErrors == {"LookupError", "KeyError", "IndexError"}

\* A has_message without the try: the exception of the lookup goes on to
\* the caller.
has_message_unguarded(message_id) ==
    [val |-> _get_message(message_id).exc = "", exc |-> _get_message(message_id).exc]

\* context.py:68-73
has_message(message_id) ==
    [val |-> _get_message(message_id).exc = "",
     exc |-> IF _get_message(message_id).exc \in LookupErrors
             THEN "" ELSE _get_message(message_id).exc]

HasMessage(message_id) ==
    /\ call = Idle
    /\ call' = [op |-> "has_message", id |-> message_id, exc |-> has_message(message_id).exc,
                val |-> has_message(message_id).val, before |-> Context]
    /\ UNCHANGED <<_escapers, _use_isolating, _messages, _terms, _parsing_issues,
                   _is_dirty, _compilation_errors, _compiled_messages, n_loads>>

\* context.py:75-79: the keys of self._messages, in the order of the
\* OrderedDict.
message_ids == Keys(_messages)

MessageIds ==
    /\ call = Idle
    /\ call' = [op |-> "message_ids", exc |-> "", val |-> message_ids]
    /\ UNCHANGED <<_escapers, _use_isolating, _messages, _terms, _parsing_issues,
                   _is_dirty, _compilation_errors, _compiled_messages, n_loads>>

\* context.py:124-125: a copy of the parsing issues.
InterpretingCheckMessages ==
    /\ call = Idle
    /\ call' = [op |-> "interpreting.check_messages", exc |-> "", val |-> _parsing_issues]
    /\ UNCHANGED <<_escapers, _use_isolating, _messages, _terms, _parsing_issues,
                   _is_dirty, _compilation_errors, _compiled_messages, n_loads>>

\* context.py:160-161: the concatenation, without a compilation.
CompilingCheckMessages ==
    /\ call = Idle
    /\ call' = [op |-> "compiling.check_messages", exc |-> "",
                val |-> _parsing_issues \o _compilation_errors]
    /\ UNCHANGED <<_escapers, _use_isolating, _messages, _terms, _parsing_issues,
                   _is_dirty, _compilation_errors, _compiled_messages, n_loads>>

\* The caller takes the result; the context is ready for the next call.
Return ==
    /\ call # Idle
    /\ call' = Idle
    /\ UNCHANGED <<_escapers, _use_isolating, _messages, _terms, _parsing_issues,
                   _is_dirty, _compilation_errors, _compiled_messages, n_loads>>

\* The ids a caller asks has_message about: a plain id, name.attr ids, a
\* term id and an absent id.
HasMessageIds ==
    {<<"parent", "-plain">>, <<"parent", "-plain", ".", "attr", "-html">>,
     <<"parent", "-plain", ".", "attr", "-plain">>, <<"novalue", "-html", ".", "title">>,
     <<"-", "term", "-plain">>, AbsentId}

\* The ids a caller formats: the keys of the stores and an absent id.
FormatIds ==
    {_messages[i].key : i \in 1..Len(_messages)} \cup {_terms[i].key : i \in 1..Len(_terms)}
        \cup {AbsentId}

\* context.py:32-45 and 129-131
Init ==
    /\ \E c \in ContextConfigs :
          /\ _escapers = c.escapers
          /\ _use_isolating = c.use_isolating
    /\ _messages = <<>>
    /\ _terms = <<>>
    /\ _parsing_issues = <<>>
    /\ _is_dirty = _mark_dirty._is_dirty
    /\ _compilation_errors = _mark_dirty._compilation_errors
    /\ _compiled_messages = <<>>
    /\ n_loads = 0
    /\ call = Idle

Next ==
    \/ \E source \in Sources : AddMessages(source)
    \/ \E message_id \in FormatIds, args \in ArgsChoices : InterpretingFormat(message_id, args)
    \/ \E message_id \in FormatIds, args \in CompilingArgsChoices : CompilingFormat(message_id, args)
    \/ \E message_id \in HasMessageIds : HasMessage(message_id)
    \/ MessageIds
    \/ InterpretingCheckMessages
    \/ CompilingCheckMessages
    \/ Return

Spec == Init /\ [][Next]_vars

\* The selector values and the variant keys that match is applied to: None
\* and a FluentNone, integers, floats, decimals and strings; the numbers
\* and names that handle(variant.key, env) gives.
Selectors ==
    {PyNone, FluentNone(<<"arg">>),
     PyInt(0), PyInt(1), PyInt(2),
     PyFloat(10), PyFloat(15), PyFloat(20),
     PyDecimal(10), PyDecimal(15), PyDecimal(20),
     Text(<<"one">>), Text(<<"other">>), Text(<<"x">>)}
VariantKeys ==
    {PyInt(0), PyInt(1), PyInt(2), PyFloat(10), PyFloat(15),
     Text(<<"one">>), Text(<<"other">>), Text(<<"x">>)}

\* resolver.py:351-364, applied to one selector value and one key.
Match(val1, val2) ==
    /\ call = Idle
    /\ call' = [op |-> "match", val1 |-> val1, val2 |-> val2, val |-> match(val1, val2)]
    /\ UNCHANGED <<_escapers, _use_isolating, _messages, _terms, _parsing_issues,
                   _is_dirty, _compilation_errors, _compiled_messages, n_loads>>

NextMatch ==
    \/ \E val1 \in Selectors, val2 \in VariantKeys : Match(val1, val2)
    \/ Return

SpecMatch == Init /\ [][NextMatch]_vars

\* The same context, loaded with the resources that go over MAX_PARTS.
NextLarge ==
    \/ \E source \in LargeSources : AddMessages(source)
    \/ \E message_id \in FormatIds, args \in LargeArgsChoices : InterpretingFormat(message_id, args)
    \/ \E message_id \in FormatIds, args \in LargeCompilingArgsChoices : CompilingFormat(message_id, args)
    \/ \E message_id \in HasMessageIds : HasMessage(message_id)
    \/ MessageIds
    \/ InterpretingCheckMessages
    \/ CompilingCheckMessages
    \/ Return

SpecLarge == Init /\ [][NextLarge]_vars

\* The same context, loaded with the resource of function calls.
NextCalls ==
    \/ \E source \in CallSources : AddMessages(source)
    \/ \E message_id \in FormatIds, args \in ArgsChoices : InterpretingFormat(message_id, args)
    \/ \E message_id \in FormatIds, args \in CompilingArgsChoices : CompilingFormat(message_id, args)
    \/ \E message_id \in HasMessageIds : HasMessage(message_id)
    \/ MessageIds
    \/ InterpretingCheckMessages
    \/ CompilingCheckMessages
    \/ Return

SpecCalls == Init /\ [][NextCalls]_vars

\* The context that is given the references that find nothing.
NextRefs ==
    \/ \E source \in RefSources : AddMessages(source)
    \/ \E message_id \in FormatIds, args \in ArgsChoices : InterpretingFormat(message_id, args)
    \/ \E message_id \in FormatIds, args \in CompilingArgsChoices : CompilingFormat(message_id, args)
    \/ \E message_id \in HasMessageIds : HasMessage(message_id)
    \/ MessageIds
    \/ InterpretingCheckMessages
    \/ CompilingCheckMessages
    \/ Return

SpecRefs == Init /\ [][NextRefs]_vars

\* The arguments handed to handle_argument: numbers, dates, strings, values
\* of the output types of the escapers, None and an object of another
\* class; and the escapers it runs under, those of the context and the
\* null escaper.
Arguments ==
    {PyInt(0), PyInt(1), PyInt(2), PyFloat(15), PyDecimal(15), PyDate, PyDatetime,
     Text(<<>>), Text(<<"J", "&", "J">>), Markup(<<"<", "b", ">">>), Markup(<<>>),
     Markdown(<<"*", "g", "*">>), Object, PyNone}

\* handle_argument of the interpreter (resolver.py:445-455) and of the
\* compiled code (runtime.py:25-49, the specialized function under the
\* null escaper) applied to one argument under one escaper.
HandleArgumentResult(arg, name, escaper, r) ==
    [op |-> "handle_argument", arg |-> arg, name |-> name, escaper |-> escaper,
     interpreted |-> [val |-> r.val, errors |-> r.env.errors, exc |-> r.exc],
     compiled |-> IF HasAttr(escaper, "output_type")
                  THEN runtime_handle_argument(arg, name, escaper.output_type, <<>>)
                  ELSE handle_argument_null_escaper(arg, name, <<>>)]

HandleArgument(arg, escaper) ==
    /\ call = Idle
    /\ call' = HandleArgumentResult(arg, <<"arg">>, escaper,
                                    handle_argument(arg, <<"arg">>, NewEnvironment(<<>>, escaper)))
    /\ UNCHANGED <<_escapers, _use_isolating, _messages, _terms, _parsing_issues,
                   _is_dirty, _compilation_errors, _compiled_messages, n_loads>>

NextArguments ==
    \/ \E arg \in Arguments, escaper \in {null_escaper} \cup {_escapers[i] : i \in 1..Len(_escapers)} :
          HandleArgument(arg, escaper)
    \/ Return

SpecArguments == Init /\ [][NextArguments]_vars

-----------------------------------------------------------------------------
(* What the properties below speak about *)

IsFormat == call.op = "interpreting.format"

\* The call formats an id that the message store holds.
FormatsPresent == IsFormat /\ Has(_messages, call.id)

\* The node, the escaper and the pattern of the id of the call.
CallNode == Node(Get(_messages, call.id))
CallEscaper == escaper_for_message(_escapers, call.id)
HasPattern == CallNode.value.type = "Pattern"

Count(errors, kind, msg) ==
    Cardinality({i \in 1..Len(errors) : errors[i].kind = kind /\ errors[i].msg = msg})

\* The call was given the mapping {arg: v}.
ArgIs(v) == ArgsOf(v) = call.args

ErrorKinds(errors) == [i \in 1..Len(errors) |-> errors[i].kind]

Occurrences(s, c) == Cardinality({i \in 1..Len(s) : s[i] = c})

Unmarked(s) == SelectSeq(s, LAMBDA c : c \notin {FSI, PDI})

\* The ids that the placeables of a pattern point at directly.
PatternRefs(pattern) ==
    {RefTarget(pattern.elements[i].expression) :
        i \in {j \in 1..Len(pattern.elements) :
                 /\ pattern.elements[j].type = "Placeable"
                 /\ IsReference(pattern.elements[j].expression)}}

Exists(message_id) ==
    IF Head(message_id) = "-" THEN Has(_terms, message_id) ELSE Has(_messages, message_id)

-----------------------------------------------------------------------------
(* C1 *)

\* C1: format(id, args) of an id that is in the store, whose message has a
\* value body, returns a (value, errors) pair: a failure met during
\* resolution (a referenced message without a value body, a
\* VariantExpression on a term that is no VariantList, ...) is appended to
\* errors and never reaches the caller as an exception.  The AttributeError
\* that resolving under null_escaper gives belongs to C20 and is set aside,
\* so that the failures C1 lists are what is checked.
C1_FormatNeverRaises ==
    (FormatsPresent /\ CallNode.value # PyNone) => call.exc \in {"", "AttributeError"}

-----------------------------------------------------------------------------
(* C2 *)

NewIssues == SubSeq(_parsing_issues, Len(call.before.issues) + 1, Len(_parsing_issues))

FirstKept(before, after) ==
    \A i \in 1..Len(before) : Node(Get(after, before[i].key)) = Node(before[i].node)

\* C2: after add_messages, every id and name.attr entry that was in a store
\* before the load still gives the node of its first definition, and each
\* Message or Term of the resource whose id was already in its store has
\* exactly one FluentDuplicateMessageId issue among the issues of the load.
C2_FirstDefinitionWins ==
    call.op = "add_messages" =>
        /\ FirstKept(call.before.messages, _messages)
        /\ FirstKept(call.before.terms, _terms)
        /\ \A i \in 1..Len(Resource(call.source)) :
              LET item == Resource(call.source)[i]
                  store == IF item.type = "Term" THEN call.before.terms ELSE call.before.messages
              IN  (item.type \in {"Message", "Term"} /\ Has(store, item.id)) =>
                      Cardinality({j \in 1..Len(NewIssues) : NewIssues[j] = DuplicateIssue(item.id)}) = 1

-----------------------------------------------------------------------------
(* C3 *)

\* C3: format(id, args) with an id that neither store holds raises a lookup
\* failure (KeyError, a LookupError) to the caller, in the interpreting and
\* in the compiling context, and the message store, the term store and the
\* parsing issues are what they were before the call.
C3_MissingIdRaises ==
    (/\ call.op \in {"interpreting.format", "compiling.format"}
     /\ ~Has(call.before.messages, call.id)
     /\ ~Has(call.before.terms, call.id))
        => /\ call.exc \in {"KeyError", "LookupError"}
           /\ Context = call.before

\* An interpreting format of the absent id on a loaded store has raised.
C3_Witness ==
    /\ IsFormat
    /\ call.id = AbsentId
    /\ Len(_messages) > 0
    /\ call.exc = "KeyError"

-----------------------------------------------------------------------------
(* C4 *)

\* The call gave what the interpreter gives, i, where the interpreter returns.
SameAsInterpreted(i) ==
    i.exc = "" =>
        /\ call.exc = ""
        /\ call.val = i.val
        /\ ErrorKinds(call.errors) = ErrorKinds(i.env.errors)

\* C4: what CompilingMessageContext.format gives for a store, id and args is
\* what InterpretingMessageContext.format gives for them: where the
\* interpreter returns, the compiled message returns the same value and the
\* same error kinds in the same order.
C4_InterpreterCompilerParity ==
    (call.op = "compiling.format" /\ Has(_messages, call.id)) =>
        SameAsInterpreted(InterpretingFormatResult(call.id, call.args))

-----------------------------------------------------------------------------
(* C5 *)

\* C5: the value format(id) returns has the output type of the first
\* configured escaper that selects id, the qualified id for a name.attr
\* entry; when no configured escaper selects id the call returns a plain
\* string.
C5_EscaperTyping ==
    FormatsPresent =>
        IF CallEscaper = null_escaper
        THEN call.exc = "" /\ call.val.type = "text"
        ELSE call.exc = "" => call.val.type = CallEscaper.output_type

-----------------------------------------------------------------------------
(* C6 *)

EscaperError == "Escaper cannot be used from calling context"

\* The existing targets of the direct references of the message of the call
\* whose escaper is neither the null escaper nor the escaper of the caller.
IncompatibleTargets ==
    {t \in PatternRefs(CallNode.value) :
        /\ Exists(t)
        /\ escaper_for_message(_escapers, t) # null_escaper
        /\ escaper_for_message(_escapers, t) # CallEscaper}

\* C6: a message that refers to existing targets of an incompatible escaper
\* (not the null escaper, not its own) is still rendered, under its own
\* escaper, with exactly one TypeError for each such reference; a message
\* with no such reference gets no escaper error.
C6_EscaperCompatibility ==
    (FormatsPresent /\ HasPattern) =>
        IF IncompatibleTargets # {}
        THEN /\ call.exc = ""
             /\ Count(call.errors, "TypeError", EscaperError) = Cardinality(IncompatibleTargets)
             /\ \A t \in IncompatibleTargets :
                   \E i \in 1..Len(call.errors) :
                      call.errors[i] = Error("TypeError", EscaperError, t)
             /\ call.val.type = IF CallEscaper = null_escaper THEN "text"
                                ELSE CallEscaper.output_type
        ELSE call.exc = "" => Count(call.errors, "TypeError", EscaperError) = 0

-----------------------------------------------------------------------------
(* C7 *)

UnderHtml == HasAttr(CallEscaper, "output_type") /\ CallEscaper.output_type = "Markup"

\* The text of the single text element that is the value of a term.
TermText(term_id) == Node(Get(_terms, term_id)).value.elements[1].value

Gives(s) == call.exc = "" /\ call.val.type = "Markup" /\ Unmarked(call.val.s) = s

\* C7: under the HTML escaper a plain string in a placeable is escaped
\* exactly once before the join (a string argument, a string literal, the
\* result of a function, the result of a referenced term that no escaper
\* selects), a Markup argument is kept as it is, and the function is given
\* its argument unescaped.
C7_EscapedOnce ==
    (FormatsPresent /\ UnderHtml) =>
        /\ (call.id = <<"argument", "-html">> /\ ArgIs(Text(<<"J", "&", "J">>)))
              => Gives(<<"<", "i", ">">> \o HtmlEscapeStr(<<"J", "&", "J">>) \o <<".">>)
        /\ (call.id = <<"argument", "-html">> /\ ArgIs(Markup(<<"<", "b", ">">>)))
              => Gives(<<"<", "i", ">", "<", "b", ">", ".">>)
        /\ (call.id = <<"literal", "-html">>)
              => Gives(<<"L">> \o HtmlEscapeStr(<<"a", "&", "b">>))
        /\ (call.id = <<"function", "-html">> /\ ArgIs(Text(<<"J", "&", "J">>)))
              => Gives(<<":">> \o HtmlEscapeStr(<<"\n", ">", " ", "J", "&", "J">>))
        /\ (call.id = <<"term-plain-ref", "-html">>)
              => Gives(HtmlEscapeStr(TermText(<<"-", "term", "-plain">>)) \o <<"!">>)

-----------------------------------------------------------------------------
(* C8 *)

CycleIds == {<<"a">>, <<"b">>, <<"a", "-html">>, <<"b", "-html">>}

\* C8: format of a message of the cycle a = { b }, b = { a } (and of the
\* same cycle under the HTML escaper) returns, with exactly one
\* FluentCyclicReferenceError and the none rendering as its value; a
\* format call never records a cycle error twice for one re-entry.
C8_CycleProtection ==
    (FormatsPresent /\ call.id \in CycleIds) =>
        /\ call.exc = ""
        /\ Count(call.errors, "FluentCyclicReferenceError", "Cyclic reference") = 1
        /\ Len(call.errors) = 1
        /\ call.val.s = <<"???">>

-----------------------------------------------------------------------------
(* C9 *)

\* The use_isolating of the escaper when it is set, else the context default.
EffectivePolicy(escaper) ==
    IF HasAttr(escaper, "use_isolating") /\ escaper.use_isolating # "None"
    THEN escaper.use_isolating = "True"
    ELSE _use_isolating

NonText(pattern) ==
    Cardinality({i \in 1..Len(pattern.elements) : pattern.elements[i].type # "TextElement"})

\* The placeables of the pattern bring no pattern of several elements with them.
Flat(pattern) ==
    \A i \in 1..Len(pattern.elements) :
        pattern.elements[i].type = "Placeable" =>
            pattern.elements[i].expression.type # "SelectExpression"

\* C9: the value of a message carries one U+2068 and one U+2069 for each
\* non-text element of its pattern when the effective policy is enabled and
\* the pattern has more than one element, and no mark otherwise; a message
\* of several elements that no escaper selects is rendered under the
\* context default.
C9_Isolation ==
    (FormatsPresent /\ HasPattern /\ Flat(CallNode.value)) =>
        LET pattern == CallNode.value
            marks == IF EffectivePolicy(CallEscaper) /\ Len(pattern.elements) > 1
                     THEN NonText(pattern) ELSE 0
        IN  /\ (CallEscaper = null_escaper /\ Len(pattern.elements) > 1) => call.exc = ""
            /\ call.exc = "" =>
                  /\ Occurrences(call.val.s, FSI) = marks
                  /\ Occurrences(call.val.s, PDI) = marks

-----------------------------------------------------------------------------
(* C10 *)

TooManyParts(errors) == Count(errors, "ValueError", "Too many parts in message")

-----------------------------------------------------------------------------
(* C11 *)

TooManyCharacters(errors) == Count(errors, "ValueError", "Too many characters in part")

\* C11: every part a pattern joins has at most MAX_PART_LENGTH characters;
\* an argument of MAX_PART_LENGTH + 1 characters is joined cut to
\* MAX_PART_LENGTH characters with one ValueError, and an argument of
\* MAX_PART_LENGTH characters is joined whole with no error.
C11_MaxPartLength ==
    IsFormat =>
        /\ call.env.longest <= MAX_PART_LENGTH
        /\ (/\ call.id = <<"longarg", "-html">>
            /\ call.exc = ""
            /\ ArgIs(Text(Xs(MAX_PART_LENGTH + 1))))
              => /\ Unmarked(call.val.s) = <<"A">> \o Xs(MAX_PART_LENGTH)
                 /\ TooManyCharacters(call.errors) = 1
        /\ (/\ call.id = <<"longarg", "-html">>
            /\ call.exc = ""
            /\ ArgIs(Text(Xs(MAX_PART_LENGTH))))
              => /\ Unmarked(call.val.s) = <<"A">> \o Xs(MAX_PART_LENGTH)
                 /\ TooManyCharacters(call.errors) = 0

-----------------------------------------------------------------------------
(* C12 *)

\* The table compile_messages gives for the store as it stands.
CompiledNow == compile_messages(Update(_messages, _terms, 1)).compiled
CompiledErrorsNow == compile_messages(Update(_messages, _terms, 1)).errors

\* C12: whenever the compiling context is marked clean its table is the one
\* compiled from the store as it stands, and a format call of the compiling
\* context leaves the context clean with that table; add_messages always
\* leaves the context marked dirty; the table changes only inside format.
C12_CompiledFromCurrentStore ==
    /\ [](~_is_dirty => _compiled_messages = CompiledNow)
    /\ [](call.op = "compiling.format" => ~_is_dirty)
    /\ [][call'.op = "add_messages" => _is_dirty']_vars
    /\ [][_compiled_messages' # _compiled_messages => call'.op = "compiling.format"]_vars

\* A format of the compiling context after the second add_messages: the
\* table holds entries of the second resource.
C12_Witness ==
    /\ call.op = "compiling.format"
    /\ n_loads = 2
    /\ ~_is_dirty
    /\ \E i \in 1..Len(_compiled_messages) : _compiled_messages[i].node.load = 2
    /\ \E i \in 1..Len(_compiled_messages) : _compiled_messages[i].node.load = 1

-----------------------------------------------------------------------------
(* C13 *)

\* C13: check_messages() of the compiling context, called at any point after
\* messages were added, returns the parsing issues recorded so far followed
\* by the compilation issues of the messages that are loaded at that point,
\* and it returns rather than raises.
C13_CheckMessages ==
    (call.op = "compiling.check_messages" /\ n_loads > 0) =>
        /\ call.exc = ""
        /\ call.val = _parsing_issues \o CompiledErrorsNow

-----------------------------------------------------------------------------
(* C14 *)

\* The ids of the Messages that are loaded, in the order of their first
\* insertion: the entries of the store that hold a Message.
PlainIds ==
    Keys(SelectSeq(_messages, LAMBDA e : Node(e.node).type = "Message"))

\* C14: message_ids() yields the plain ids of the loaded Messages, each
\* once, in the order of their first insertion, and neither a name.attr
\* id nor a term id.
C14_MessageIds ==
    call.op = "message_ids" =>
        /\ call.val = PlainIds
        /\ \A i, j \in 1..Len(call.val) : call.val[i] = call.val[j] => i = j
        /\ \A i \in 1..Len(call.val) : ~Has(_terms, call.val[i])

-----------------------------------------------------------------------------
(* C15 *)

\* C15: has_message(id) returns true exactly when the message store holds
\* id, a plain id or a name.attr one, returns false and does not raise when
\* the store does not hold it, and leaves both stores as they were.
C15_HasMessage ==
    /\ [](call.op = "has_message" =>
            /\ call.exc = ""
            /\ call.val = Has(_messages, call.id)
            /\ call.before = Context)
    /\ [][call'.op = "has_message" => UNCHANGED <<_messages, _terms, _parsing_issues>>]_vars

\* has_message has answered false for an id the store does not hold, in a
\* context whose store holds name.attr ids.
C15_Witness ==
    /\ call.op = "has_message" /\ ~call.val /\ call.exc = ""
    /\ Has(_messages, <<"parent", "-plain", ".", "attr", "-html">>)

-----------------------------------------------------------------------------
(* C16 *)

\* add_messages has loaded the source that the load before it loaded.
SecondLoad ==
    /\ call.op = "add_messages"
    /\ \E i \in 1..Len(call.before.messages) :
          /\ call.before.messages[i].node.load = n_loads - 1
          /\ call.before.messages[i].node.source = call.source

\* The Messages and Terms of the source, and how many of them define id.
Definitions(source) ==
    {i \in 1..Len(Resource(source)) : Resource(source)[i].type \in {"Message", "Term"}}

DefinitionsOf(source, id) ==
    Cardinality({i \in Definitions(source) : Resource(source)[i].id = id})

DuplicatesOf(issues, id) ==
    Cardinality({j \in 1..Len(issues) : issues[j] = DuplicateIssue(id)})

SameLookups(before, after) ==
    /\ Keys(after) = Keys(before)
    /\ \A i \in 1..Len(before) : Node(after[i].node) = Node(before[i].node)

\* C16 as stated: the second add_messages of the same source adds exactly
\* one FluentDuplicateMessageId issue for each message or term id of the
\* source and none for an attribute, and every lookup, has_message answer
\* and the message_ids sequence are what they were after the first call.
C16_IdempotentLoad ==
    SecondLoad =>
        /\ \A i \in Definitions(call.source) :
              DuplicatesOf(NewIssues, Resource(call.source)[i].id) = 1
        /\ \A j \in 1..Len(NewIssues) :
              NewIssues[j].kind = "FluentDuplicateMessageId"
                  => DefinitionsOf(call.source, NewIssues[j].id) > 0
        /\ SameLookups(call.before.messages, _messages)
        /\ SameLookups(call.before.terms, _terms)

\* C16, amended: the second add_messages of the same source adds one
\* FluentDuplicateMessageId issue for each Message or Term entry of the
\* source (so two for an id that the source defines twice) and none for an
\* attribute, and every lookup, has_message answer and the message_ids
\* sequence are what they were after the first call.
C16_IdempotentLoadPerDefinition ==
    SecondLoad =>
        /\ \A i \in Definitions(call.source) :
              DuplicatesOf(NewIssues, Resource(call.source)[i].id)
                  = DefinitionsOf(call.source, Resource(call.source)[i].id)
        /\ \A j \in 1..Len(NewIssues) :
              NewIssues[j].kind = "FluentDuplicateMessageId"
                  => DefinitionsOf(call.source, NewIssues[j].id) > 0
        /\ SameLookups(call.before.messages, _messages)
        /\ SameLookups(call.before.terms, _terms)

\* The resource that defines an id twice has been loaded a second time.
C16_Witness ==
    /\ SecondLoad
    /\ DefinitionsOf(call.source, <<"again", "-html">>) = 2
    /\ DuplicatesOf(NewIssues, <<"again", "-html">>) = 2

-----------------------------------------------------------------------------
(* C17 *)

\* What a format call gives to its caller.
Outcome(r) == [val |-> r.val, errors |-> r.env.errors, exc |-> r.exc]
CallOutcome == [val |-> call.val, errors |-> call.errors, exc |-> call.exc]

-----------------------------------------------------------------------------
(* C19 *)

IsNone(val) == val.type \in {"NoneType", "FluentNone"}

\* The five rules: no match when a side is none; equality of the values
\* when both sides are numbers; the plural category of the number equal
\* to the name when one side is a number; equality of the strings
\* otherwise.
MatchReference(selector, key) ==
    IF IsNone(selector) \/ IsNone(key) THEN FALSE
    ELSE IF IsNumeric(selector) /\ IsNumeric(key) THEN Tenths(selector) = Tenths(key)
    ELSE IF IsNumeric(selector) THEN plural_form_for_number(Tenths(selector)).s = key.s
    ELSE IF IsNumeric(key) THEN plural_form_for_number(Tenths(key)).s = selector.s
    ELSE selector.s = key.s

\* C19: match(selector, key) is what the five rules give, for a selector
\* that is none, an integer, a float, a decimal or a string and a key that
\* is a number or a name.
C19_MatchReference ==
    call.op = "match" => call.val = MatchReference(call.val1, call.val2)

-----------------------------------------------------------------------------
(* C18 *)

\* The message of the call is one placeable with a select expression on
\* the argument.
IsSelect(node) ==
    /\ node.value # PyNone
    /\ node.value.type = "Pattern"
    /\ Len(node.value.elements) = 1
    /\ node.value.elements[1].type = "Placeable"
    /\ node.value.elements[1].expression.type = "SelectExpression"
    /\ node.value.elements[1].expression.selector.type = "VariableReference"

SelectOf(node) == node.value.elements[1].expression

\* The value of the selector: the argument, a FluentNone when there is none
\* or when it is of no supported type.
SelectorValue(args) ==
    IF args = PyNone THEN FluentNone(<<"arg">>)
    ELSE IF \/ args[<<"arg">>].type = "int"
            \/ IsInstance(args[<<"arg">>], "text")
            \/ IsInstance(args[<<"arg">>], CallEscaper.output_type)
    THEN args[<<"arg">>]
    ELSE FluentNone(<<"arg">>)

\* The earliest variant whose key matches the selector value, the variant
\* marked default when there is none.
Matching(variants, key) ==
    {i \in 1..Len(variants) : match(key, KeyValue(variants[i].key))}

Chosen(variants, key) ==
    IF Matching(variants, key) # {}
    THEN CHOOSE i \in Matching(variants, key) : \A j \in Matching(variants, key) : i <= j
    ELSE CHOOSE i \in 1..Len(variants) : variants[i].default

\* The message with the chosen variant as the only one of its select.
OnlyVariant(node, i) ==
    [node EXCEPT !.value.elements[1].expression.variants =
                    <<[SelectOf(node).variants[i] EXCEPT !.default = TRUE]>>]

-----------------------------------------------------------------------------
(* C20 *)

\* escaper_for_message(id) is the first configured escaper that selects id,
\* the null escaper when none does.
FirstSelecting(id) ==
    \/ /\ escaper_for_message(_escapers, id) = null_escaper
       /\ \A i \in 1..Len(_escapers) : ~select(_escapers[i], id)
    \/ \E i \in 1..Len(_escapers) :
          /\ escaper_for_message(_escapers, id) = _escapers[i]
          /\ select(_escapers[i], id)
          /\ \A j \in 1..(i - 1) : ~select(_escapers[j], id)

\* C20: the escaper of a message is the first configured escaper, in the
\* configured order, that selects its id, and the null escaper when none
\* does; the null escaper has all that the resolver reads of an escaper,
\* so the format of a message that no escaper selects does not fail for
\* want of an attribute and, when it returns, returns a plain string.
C20_NullEscaper ==
    /\ \A i \in 1..Len(_messages) : FirstSelecting(_messages[i].key)
    /\ (FormatsPresent /\ HasPattern /\ CallEscaper = null_escaper) =>
            /\ call.exc # "AttributeError"
            /\ call.exc = "" => call.val.type = "text"

-----------------------------------------------------------------------------
(* C21 *)

\* The message of the call is one placeable with a call expression.
IsCall(node) ==
    /\ node.value # PyNone
    /\ node.value.type = "Pattern"
    /\ Len(node.value.elements) = 1
    /\ node.value.elements[1].type = "Placeable"
    /\ node.value.elements[1].expression.type = "CallExpression"

CallOf(node) == node.value.elements[1].expression

\* The function is registered and the call has the arguments its
\* signature takes.
Registered(e) == e.callee \in Functions

SignatureFits(e) ==
    /\ \/ functions_arg_spec(e.callee).positional_any
       \/ Len(e.positional) = functions_arg_spec(e.callee).positional
    /\ \/ functions_arg_spec(e.callee).keywords_any
       \/ \A i \in 1..Len(e.named) : e.named[i].name \in functions_arg_spec(e.callee).keywords

\* The errors that speak about the call of the function, by kind.
CallErrors(errors, name, kind) ==
    Cardinality({i \in 1..Len(errors) :
                    /\ errors[i].about = name
                    /\ errors[i].kind = kind
                    /\ errors[i].msg \in {"Unknown function", "unexpected keyword argument",
                                          "positional arguments"}})

Rejected(e, kind) ==
    /\ call.env.invoked = <<>>
    /\ call.exc = ""
    /\ CallErrors(call.errors, e.callee, kind) = 1
    /\ CallErrors(call.errors, e.callee, "FluentReferenceError")
         + CallErrors(call.errors, e.callee, "TypeError") = 1
    /\ Unmarked(call.val.s) = e.callee \o <<"()">>

-----------------------------------------------------------------------------
(* C22 *)

\* The message of the call is one placeable with an attribute expression.
IsAttributeReference(node) ==
    /\ node.value # PyNone
    /\ node.value.type = "Pattern"
    /\ Len(node.value.elements) = 1
    /\ node.value.elements[1].type = "Placeable"
    /\ node.value.elements[1].expression.type = "AttributeExpression"

AttributeOf(node) == node.value.elements[1].expression

AttributeAbsent(e) == ~Has(_messages, message_id_for_attr(e.ref, e.name))
ParentPresent(e) == Has(_messages, e.ref)

\* The errors of a kind in a list of errors.
ErrorsOfKind(errors, kind) == Cardinality({i \in 1..Len(errors) : errors[i].kind = kind})

\* The value of the parent resolved under the parent's escaper, as the
\* pattern of the caller takes it in.
ParentValue(e, args) ==
    fully_resolved(
        handle_under([message |-> Node(Get(_messages, e.ref)),
                      new_escaper |-> escaper_for_message(_escapers, e.ref),
                      env |-> NewEnvironment(args, CallEscaper)]))

RendersValue(r) == call.exc = "" /\ r.exc = "" /\ call.val = r.val

CallArgs == IF call.args = PyNone THEN <<>> ELSE call.args

\* C22: an attribute expression m.a whose attribute is absent appends
\* exactly one FluentReferenceError; where the parent m is present the
\* call renders the parent's value under the parent's escaper, and where
\* the parent is absent too it renders none(m.a).
C22_AttributeFallback ==
    (FormatsPresent /\ IsAttributeReference(CallNode) /\ AttributeAbsent(AttributeOf(CallNode))) =>
        /\ ErrorsOfKind(call.errors, "FluentReferenceError") = 1
        /\ ParentPresent(AttributeOf(CallNode))
              => RendersValue(ParentValue(AttributeOf(CallNode), CallArgs))
        /\ ~ParentPresent(AttributeOf(CallNode))
              => /\ call.exc = ""
                 /\ Unmarked(call.val.s)
                      = message_id_for_attr(AttributeOf(CallNode).ref, AttributeOf(CallNode).name)

-----------------------------------------------------------------------------
(* C23 *)

\* The pattern of the call begins with a reference to a message or a term
\* that the store does not hold.
BeginsWithMissingReference(node) ==
    /\ node.value # PyNone
    /\ node.value.type = "Pattern"
    /\ Len(node.value.elements) >= 1
    /\ node.value.elements[1].type = "Placeable"
    /\ node.value.elements[1].expression.type \in {"MessageReference", "TermReference"}
    /\ ~Exists(node.value.elements[1].expression.id)

MissingId(node) == node.value.elements[1].expression.id

\* The errors of a list that speak about an id.
ErrorsAbout(errors, id) == {i \in 1..Len(errors) : errors[i].about = id}

UnknownReference(id) ==
    Error("FluentReferenceError", IF Head(id) = "-" THEN "Unknown term" ELSE "Unknown message", id)

IsPrefix(p, s) == Len(p) <= Len(s) /\ SubSeq(s, 1, Len(p)) = p

\* C23: a reference to a message or a term that the store does not hold
\* appends exactly one error, the FluentReferenceError 'Unknown message: id'
\* or 'Unknown term: id', and yields none(id), under every configuration of
\* escapers and every escaper of the caller; the escaper of the caller is
\* the current one afterwards.
C23_MissingReference ==
    (FormatsPresent /\ BeginsWithMissingReference(CallNode)) =>
        /\ call.exc = ""
        /\ Cardinality(ErrorsAbout(call.errors, MissingId(CallNode))) = 1
        /\ call.errors[1] = UnknownReference(MissingId(CallNode))
        /\ IsPrefix(MissingId(CallNode), Unmarked(call.val.s))
        /\ call.env.escaper = CallEscaper

-----------------------------------------------------------------------------
(* C24 *)

IsHandleArgument == call.op = "handle_argument"

\* What the claim says handle_argument gives for an argument under an
\* escaper: [val, errors].
Sanitized(arg, name, escaper) ==
    IF \/ HasAttr(escaper, "output_type") /\ IsInstance(arg, escaper.output_type)
       \/ IsInstance(arg, "text")
    THEN [val |-> arg, errors |-> <<>>]
    ELSE IF arg.type \in {"int", "float", "Decimal"}
    THEN [val |-> fluent_number(arg), errors |-> <<>>]
    ELSE IF arg.type \in {"date", "datetime"}
    THEN [val |-> fluent_date(arg), errors |-> <<>>]
    ELSE [val |-> FluentNone(name),
          errors |-> <<Error("TypeError", "Unsupported external type", name)>>]

\* C24: handle_argument passes a value of the output type of the current
\* escaper and a plain string through unchanged, wraps a number as a
\* locale-aware number and a date as a locale-aware date, and for any
\* other value appends one TypeError and returns none(name); the function
\* of the interpreter and the function of the compiled code give the same
\* value and the same errors for every argument.
C24_ArgumentSanitization ==
    IsHandleArgument =>
        /\ call.interpreted.exc = ""
        /\ call.interpreted.val = Sanitized(call.arg, call.name, call.escaper).val
        /\ call.interpreted.errors = Sanitized(call.arg, call.name, call.escaper).errors
        /\ call.compiled = Sanitized(call.arg, call.name, call.escaper)
        /\ call.interpreted.val = call.compiled.val
        /\ call.interpreted.errors = call.compiled.errors

-----------------------------------------------------------------------------
(* C25 *)

\* A key of the form p.a, its parent id p and its attribute name a.
IsQualified(key) == \E i \in 1..Len(key) : key[i] = "."
DotOf(key) == CHOOSE i \in 1..Len(key) : key[i] = "."
ParentOf(key) == SubSeq(key, 1, DotOf(key) - 1)
AttrNameOf(key) == SubSeq(key, DotOf(key) + 1, Len(key))

\* The entry p.a of a store is an attribute named a of the node stored
\* under p.
EntryOfCurrentParent(store, key) ==
    /\ Has(store, ParentOf(key))
    /\ \E j \in 1..Len(Node(Get(store, ParentOf(key))).attributes) :
          /\ Node(Get(store, ParentOf(key))).attributes[j].id = AttrNameOf(key)
          /\ Get(store, key) = AttrRef(Get(store, ParentOf(key)), j)

\* Every attribute of the node stored under p has its entry p.a.
AttributesFlattened(store, p) ==
    \A j \in 1..Len(Node(Get(store, p)).attributes) :
        /\ Has(store, message_id_for_attr(p, Node(Get(store, p)).attributes[j].id))
        /\ EntryOfCurrentParent(store, message_id_for_attr(p, Node(Get(store, p)).attributes[j].id))

StoreConsistent(store) ==
    \A i \in 1..Len(store) :
        IF IsQualified(store[i].key) THEN EntryOfCurrentParent(store, store[i].key)
        ELSE AttributesFlattened(store, store[i].key)

\* C25: after any sequence of add_messages calls a store holds the entry
\* p.a exactly when the node it holds under p has an attribute named a,
\* and the entry is that attribute's node.
C25_StoreConsistency == StoreConsistent(_messages) /\ StoreConsistent(_terms)

-----------------------------------------------------------------------------
(* C26 *)

\* The pattern of the call has a placeable that refers to a message, a
\* term, an attribute or a variant: resolving it crosses a reference.
CrossesReference(node) ==
    /\ node.value # PyNone
    /\ node.value.type = "Pattern"
    /\ \E i \in 1..Len(node.value.elements) :
          /\ node.value.elements[i].type = "Placeable"
          /\ IsReference(node.value.elements[i].expression)

\* C26: the current escaper of the environment is saved at every
\* reference crossing and put back on every exit path of the nested
\* resolution, the early returns and the error paths among them: when the
\* handlers of the references of a call have finished, the current escaper
\* is the one the call began with, the escaper of the message formatted.
C26_ScopedEscaper ==
    (FormatsPresent /\ CrossesReference(CallNode)) => call.env.escaper = CallEscaper

-----------------------------------------------------------------------------
(* C27 *)

\* The ids that an expression refers to, in any of its placeables,
\* variants and arguments.
RECURSIVE ExprRefs(_)
ExprRefs(expr) ==
    CASE expr.type = "Pattern" ->
            UNION {ExprRefs(expr.elements[i]) : i \in 1..Len(expr.elements)}
      [] expr.type = "Placeable" -> ExprRefs(expr.expression)
      [] expr.type \in {"MessageReference", "TermReference"} -> {expr.id}
      [] expr.type = "AttributeExpression" ->
            {message_id_for_attr(expr.ref, expr.name), expr.ref}
      [] expr.type = "VariantExpression" -> {expr.ref}
      [] expr.type = "SelectExpression" ->
            ExprRefs(expr.selector)
                \cup UNION {ExprRefs(expr.variants[i].value) : i \in 1..Len(expr.variants)}
      [] expr.type = "VariantList" ->
            UNION {ExprRefs(expr.variants[i].value) : i \in 1..Len(expr.variants)}
      [] expr.type = "CallExpression" ->
            UNION {ExprRefs(expr.positional[i]) : i \in 1..Len(expr.positional)}
                \cup UNION {ExprRefs(expr.named[i].value) : i \in 1..Len(expr.named)}
      [] OTHER -> {}

\* The ids that the entry stored under an id refers to.
EntryRefs(id) ==
    IF ~Exists(id) THEN {}
    ELSE ExprRefs(Node(Get(IF Head(id) = "-" THEN _terms ELSE _messages, id)).value)

\* The ids reached from a set of ids in at most n references.
RECURSIVE Reached(_, _)
Reached(ids, n) ==
    IF n = 0 THEN ids
    ELSE Reached(ids \cup UNION {EntryRefs(id) : id \in ids}, n - 1)

StoredIds == {_messages[i].key : i \in 1..Len(_messages)} \cup {_terms[i].key : i \in 1..Len(_terms)}

\* The references that begin at the id can come back to an entry they
\* went through: the resolution of the id can enter a pattern again.
CanReenter(id) ==
    \E m \in Reached({id}, Cardinality(StoredIds)) :
        m \in Reached(EntryRefs(m), Cardinality(StoredIds))

-----------------------------------------------------------------------------
(* C28 *)

=============================================================================
